---- MODULE Spec2Model ----
(***************************************************************************)
(* FinMan (M-Pesa budgeter): the SMS parser (utils/smsParser.ts) and the   *)
(* recurring-bill detector (utils analytics), as state machines.           *)
(*                                                                         *)
(* Texts are strings; a character is a string of length 1.  Amounts are    *)
(* counted in cents (the patterns always capture exactly two fraction      *)
(* digits).  A Date is the number of minutes of local wall-clock time      *)
(* since 1970-01-01 00:00, in a zone without daylight-saving shifts        *)
(* (Africa/Nairobi, the zone of the messages).                             *)
(***************************************************************************)
EXTENDS Integers, Sequences, FiniteSets, TLC

VARIABLES
    smsInput,        \* App.tsx: the text in the "add transaction" box
    parsed,          \* result of the latest parseMpesaSMS(smsInput) call
    previous,        \* result of the call before it on the same text
    now,             \* the wall clock (new Date())
    transactions,    \* the Transaction[] handed to detectRecurringBills
    recurringBills,  \* the RecurringBill[] it returned
    detected,        \* detectRecurringBills has returned for this history
    stored,          \* db.transactions: the records added, in order of id
    alerted,         \* the message of the last alert(), "" when none
    monthlyBudget,   \* calculateSpendingVelocity: its second argument
    currentBalance,  \* calculateSpendingVelocity: its third argument
    velocity         \* the SpendingVelocity it returned

vars == <<smsInput, parsed, previous, now, transactions, recurringBills,
          detected, stored, alerted, monthlyBudget, currentBalance, velocity>>

parserVars == <<smsInput, parsed, previous>>
detectorVars == <<transactions, recurringBills, detected>>
storeVars == <<stored, alerted>>
velocityVars == <<monthlyBudget, currentBalance, velocity>>

----------------------------------------------------------------------------
(* Characters and strings                                                  *)

Ch(s, i) == IF i >= 1 /\ i <= Len(s) THEN SubSeq(s, i, i) ELSE ""

Digits == {"0", "1", "2", "3", "4", "5", "6", "7", "8", "9"}

\* String.prototype.toLowerCase / toUpperCase, letter by letter
ToLower ==
    ("A" :> "a") @@ ("B" :> "b") @@ ("C" :> "c") @@ ("D" :> "d") @@ ("E" :> "e") @@
    ("F" :> "f") @@ ("G" :> "g") @@ ("H" :> "h") @@ ("I" :> "i") @@ ("J" :> "j") @@
    ("K" :> "k") @@ ("L" :> "l") @@ ("M" :> "m") @@ ("N" :> "n") @@ ("O" :> "o") @@
    ("P" :> "p") @@ ("Q" :> "q") @@ ("R" :> "r") @@ ("S" :> "s") @@ ("T" :> "t") @@
    ("U" :> "u") @@ ("V" :> "v") @@ ("W" :> "w") @@ ("X" :> "x") @@ ("Y" :> "y") @@
    ("Z" :> "z")

ToUpper ==
    ("a" :> "A") @@ ("b" :> "B") @@ ("c" :> "C") @@ ("d" :> "D") @@ ("e" :> "E") @@
    ("f" :> "F") @@ ("g" :> "G") @@ ("h" :> "H") @@ ("i" :> "I") @@ ("j" :> "J") @@
    ("k" :> "K") @@ ("l" :> "L") @@ ("m" :> "M") @@ ("n" :> "N") @@ ("o" :> "O") @@
    ("p" :> "P") @@ ("q" :> "Q") @@ ("r" :> "R") @@ ("s" :> "S") @@ ("t" :> "T") @@
    ("u" :> "U") @@ ("v" :> "V") @@ ("w" :> "W") @@ ("x" :> "X") @@ ("y" :> "Y") @@
    ("z" :> "Z")

UpperSet == DOMAIN ToLower
LowerSet == DOMAIN ToUpper

LowerOf(c) == IF c \in UpperSet THEN ToLower[c] ELSE c

UpperOf(c) == IF c \in LowerSet THEN ToUpper[c] ELSE c

\* (the string is converted half by half)
RECURSIVE toLowerCase(_)
toLowerCase(s) ==
    IF Len(s) <= 1 THEN LowerOf(s)
    ELSE LET h == Len(s) \div 2
         IN  toLowerCase(SubSeq(s, 1, h)) \o toLowerCase(SubSeq(s, h + 1, Len(s)))

RECURSIVE toUpperCase(_)
toUpperCase(s) ==
    IF Len(s) <= 1 THEN UpperOf(s)
    ELSE LET h == Len(s) \div 2
         IN  toUpperCase(SubSeq(s, 1, h)) \o toUpperCase(SubSeq(s, h + 1, Len(s)))

\* the regular-expression classes used by the parser
WhiteSpace == {" ", "\t", "\n", "\r"}              \* \s
LineTerminators == {"\n", "\r"}                    \* what . does not match
AlphaNum == UpperSet \cup LowerSet \cup Digits     \* [A-Z0-9] under /i
DigitsComma == Digits \cup {","}                   \* [\d,]

\* String.prototype.includes: case-sensitive substring test
includes(s, lit) ==
    \E i \in 1..(Len(s) - Len(lit) + 1) : SubSeq(s, i, i + Len(lit) - 1) = lit

\* a literal of a /i pattern matches at position i (lit is in lower case)
LitAt(s, i, lit) ==
    /\ i >= 1
    /\ i + Len(lit) - 1 <= Len(s)
    /\ \A k \in 1..Len(lit) :
          \/ Ch(s, i + k - 1) = Ch(lit, k)
          \/ Ch(s, i + k - 1) = UpperOf(Ch(lit, k))

Min(S) == CHOOSE x \in S : \A y \in S : x <= y

\* length of the longest run of characters of class C starting at i (greedy +)
RECURSIVE RunLen(_, _, _)
RunLen(s, i, C) ==
    IF Ch(s, i) \in C THEN 1 + RunLen(s, i + 1, C) ELSE 0

\* length of the longest run of characters outside class C starting at i
\* (the runs of . are long: it is computed from the places where a run stops)
RunLenNot(s, i, C) ==
    IF i > Len(s) THEN 0
    ELSE Min({k \in i..(Len(s) + 1) : k > Len(s) \/ Ch(s, k) \in C}) - i

\* optional single white space (\s?): number of characters it consumes at i
OptSpace(s, i) == IF Ch(s, i) \in WhiteSpace THEN 1 ELSE 0

\* String.prototype.trim
RECURSIVE trimStart(_)
trimStart(s) ==
    IF s # "" /\ Ch(s, 1) \in WhiteSpace
    THEN trimStart(SubSeq(s, 2, Len(s))) ELSE s

RECURSIVE trimEnd(_)
trimEnd(s) ==
    IF s # "" /\ Ch(s, Len(s)) \in WhiteSpace
    THEN trimEnd(SubSeq(s, 1, Len(s) - 1)) ELSE s

trim(s) == trimEnd(trimStart(s))

\* s.replace(/,/g, '')
RECURSIVE removeCommas(_)
removeCommas(s) ==
    IF s = "" THEN ""
    ELSE (IF Ch(s, 1) = "," THEN "" ELSE Ch(s, 1))
             \o removeCommas(SubSeq(s, 2, Len(s)))

DigitVal(c) == CHOOSE d \in 0..9 : Ch("0123456789", d + 1) = c

\* Number("19"): value of a string of decimal digits
RECURSIVE Number(_)
Number(s) ==
    IF s = "" THEN 0
    ELSE 10 * Number(SubSeq(s, 1, Len(s) - 1)) + DigitVal(Ch(s, Len(s)))

\* parseFloat of "<digits>.<d><d>" (digits may be empty), in cents
parseFloat(s) ==
    LET n == RunLen(s, 1, Digits)
    IN  100 * Number(SubSeq(s, 1, n)) + Number(SubSeq(s, n + 2, n + 3))

\* s.split(sep) for a one-character separator
RECURSIVE split(_, _)
split(s, sep) ==
    LET n == RunLen(s, 1, {Ch(s, k) : k \in 1..Len(s)} \ {sep})
    IN  IF n = Len(s) THEN <<s>>
        ELSE <<SubSeq(s, 1, n)>> \o split(SubSeq(s, n + 2, Len(s)), sep)

----------------------------------------------------------------------------
(* Dates: new Date(year, monthIndex, day, hours, minutes), ECMAScript      *)
(* MakeDay / MakeTime / MakeDate in local time                             *)

MinutesPerDay == 24 * 60

DayFromYear(y) ==
    365 * (y - 1970) + ((y - 1969) \div 4) - ((y - 1901) \div 100)
        + ((y - 1601) \div 400)

InLeapYear(y) == (y % 4 = 0) /\ ((y % 100 # 0) \/ (y % 400 = 0))

DaysInMonth(y, mn) ==
    IF mn = 1 THEN (IF InLeapYear(y) THEN 29 ELSE 28)
    ELSE IF mn \in {3, 5, 8, 10} THEN 30 ELSE 31

RECURSIVE DaysBeforeMonth(_, _)
DaysBeforeMonth(y, mn) ==
    IF mn = 0 THEN 0
    ELSE DaysBeforeMonth(y, mn - 1) + DaysInMonth(y, mn - 1)

\* day and month are not range-checked: they overflow into the next
\* month or year, as in JavaScript
MakeDay(year, month, day) ==
    LET ym == year + (month \div 12)
        mn == month % 12
    IN  DayFromYear(ym) + DaysBeforeMonth(ym, mn) + day - 1

NewDate(year, monthIndex, day, hours, minutes) ==
    LET yr == IF year >= 0 /\ year <= 99 THEN 1900 + year ELSE year
    IN  MakeDay(yr, monthIndex, day) * MinutesPerDay + hours * 60 + minutes

----------------------------------------------------------------------------
(* utils/smsParser.ts: the regular expressions.  A match is the sequence   *)
(* of its capture groups; <<>> is "no match" (null).  Every pattern but    *)
(* the first is unanchored and begins with a literal: it is tried at each  *)
(* occurrence of that literal, leftmost first.                             *)

NoMatch == <<>>

\* leftmost match of /lit.../i, where Rest matches what follows the literal
\* (lit is in lower case)
FirstMatch(s, lit, Rest(_, _)) ==
    LET n == Len(lit)
        I == {i \in 1..(Len(s) - n + 1) :
                 LitAt(s, i, lit) /\ Rest(s, i + n) # NoMatch}
    IN  IF I = {} THEN NoMatch ELSE Rest(s, Min(I) + n)

\* the pattern without its ^: the code and marker are found anywhere
mpesaIdMatch_unanchored(text) ==
    LET I == {i \in 1..Len(text) :
                 LET n == RunLen(text, i, AlphaNum)
                 IN  /\ n >= 1
                     /\ Ch(text, i + n) \in WhiteSpace
                     /\ LitAt(text, i + n + 1, "confirmed")}
    IN  IF I = {} THEN NoMatch
        ELSE <<SubSeq(text, Min(I), Min(I) + RunLen(text, Min(I), AlphaNum) - 1)>>

\* /^([A-Z0-9]+)\sConfirmed/i
mpesaIdMatch(text) ==
    LET n == RunLen(text, 1, AlphaNum)
    IN  IF /\ n >= 1
           /\ Ch(text, n + 1) \in WhiteSpace
           /\ LitAt(text, n + 2, "confirmed")
        THEN <<SubSeq(text, 1, n)>>
        ELSE NoMatch

\* ([\d,]+\.\d{2}) tried at position i
NumberAt(s, i) ==
    LET n == RunLen(s, i, DigitsComma)
    IN  IF /\ n >= 1
           /\ Ch(s, i + n) = "."
           /\ Ch(s, i + n + 1) \in Digits
           /\ Ch(s, i + n + 2) \in Digits
        THEN <<SubSeq(s, i, i + n + 2)>>
        ELSE NoMatch

\* \s?([\d,]+\.\d{2}) tried at position i
SpaceNumberAt(s, i) == NumberAt(s, i + OptSpace(s, i))

\* \s?Ksh\s?([\d,]+\.\d{2}) tried at position i
SpaceKshAt(s, i) ==
    LET j == i + OptSpace(s, i)
    IN  IF LitAt(s, j, "ksh") THEN SpaceNumberAt(s, j + 3) ELSE NoMatch

\* /Ksh\s?([\d,]+\.\d{2})/i
amountMatch(text) == FirstMatch(text, "ksh", SpaceNumberAt)

\* /balance is Ksh\s?([\d,]+\.\d{2})/i
balanceMatch(text) == FirstMatch(text, "balance is ksh", SpaceNumberAt)

\* /cost,\s?Ksh\s?([\d,]+\.\d{2})/i
costMatch(text) == FirstMatch(text, "cost,", SpaceKshAt)

\* \s(\d{1,2}\/\d{1,2}\/\d{2,4})\sat\s(\d{1,2}:\d{2}\s[AP]M) at position i
DateTimeAt(s, i) ==
    LET d0 == i + 1
        nd == RunLen(s, d0, Digits)
        m0 == d0 + nd + 1
        nm == RunLen(s, m0, Digits)
        y0 == m0 + nm + 1
        ny == RunLen(s, y0, Digits)
        a0 == y0 + ny + 1
        h0 == a0 + 3
        nh == RunLen(s, h0, Digits)
        i0 == h0 + nh + 1
        ni == RunLen(s, i0, Digits)
        p0 == i0 + ni + 1
    IN  IF /\ Ch(s, i) \in WhiteSpace
           /\ nd \in 1..2
           /\ Ch(s, d0 + nd) = "/"
           /\ nm \in 1..2
           /\ Ch(s, m0 + nm) = "/"
           /\ ny \in 2..4
           /\ Ch(s, y0 + ny) \in WhiteSpace
           /\ LitAt(s, a0, "at")
           /\ Ch(s, a0 + 2) \in WhiteSpace
           /\ nh \in 1..2
           /\ Ch(s, h0 + nh) = ":"
           /\ ni = 2
           /\ Ch(s, i0 + ni) \in WhiteSpace
           /\ LowerOf(Ch(s, p0)) \in {"a", "p"}
           /\ LowerOf(Ch(s, p0 + 1)) = "m"
        THEN <<SubSeq(s, d0, y0 + ny - 1), SubSeq(s, h0, p0 + 1)>>
        ELSE NoMatch

\* /on\s(\d{1,2}\/\d{1,2}\/\d{2,4})\sat\s(\d{1,2}:\d{2}\s[AP]M)/i
dateMatch(text) == FirstMatch(text, "on", DateTimeAt)

\* (.*?) starting at j, followed by what End accepts: the shortest segment
\* without line terminators after which End matches
Lazy(s, j, End(_, _)) ==
    LET n == RunLenNot(s, j, LineTerminators)
        K == {k \in j..(j + n) : End(s, k)}
    IN  IF K = {} THEN NoMatch ELSE <<SubSeq(s, j, Min(K) - 1)>>

\* \son
SpaceOn(s, k) == Ch(s, k) \in WhiteSpace /\ LitAt(s, k + 1, "on")

\* \.\son
DotSpaceOn(s, k) == Ch(s, k) = "." /\ SpaceOn(s, k + 1)

\* \s(.*?)\.\son tried at position i
NameDotOnAt(s, i) ==
    IF Ch(s, i) \in WhiteSpace THEN Lazy(s, i + 1, DotSpaceOn) ELSE NoMatch

\* \s(.*?)\son tried at position i
NameOnAt(s, i) ==
    IF Ch(s, i) \in WhiteSpace THEN Lazy(s, i + 1, SpaceOn) ELSE NoMatch

\* /paid to\s(.*?)\.\son/i
paidToMatch(text) == FirstMatch(text, "paid to", NameDotOnAt)

\* /sent to\s(.*?)\son/i
sentToMatch(text) == FirstMatch(text, "sent to", NameOnAt)

\* /from\s(.*?)\son/i
fromMatch(text) == FirstMatch(text, "from", NameOnAt)

\* /to\s(.*?)\son/i
toMatch(text) == FirstMatch(text, "to", NameOnAt)

----------------------------------------------------------------------------
(* utils/smsParser.ts: parseMpesaSMS                                       *)

null == [returned |-> "null"]

\* period.toUpperCase() on an undefined period: the call does not return
TypeError == [thrown |-> "TypeError"]

\* no call has been made yet
NotCalled == [returned |-> "nothing"]

IsRecord(r) == r \notin {null, TypeError, NotCalled}

\* the conversion without the 12-hour to 24-hour step
dateOf_noPeriod(m) ==
    LET dmy == split(m[1], "/")
        y == Number(dmy[3])
        tp == split(m[2], " ")
        hm == split(tp[1], ":")
    IN  IF Len(tp) < 2 THEN TypeError
        ELSE [date |-> NewDate(IF y < 100 THEN 2000 + y ELSE y,
                               Number(dmy[2]) - 1, Number(dmy[1]),
                               Number(hm[1]), Number(hm[2]))]

\* the conversion without the step from 12 AM to hour 0
dateOf_midnight(m) ==
    LET dmy == split(m[1], "/")
        d == Number(dmy[1])
        mo == Number(dmy[2])
        y == Number(dmy[3])
        fullYear == IF y < 100 THEN 2000 + y ELSE y
        tp == split(m[2], " ")
        hm == split(tp[1], ":")
        h == Number(hm[1])
        minutes == Number(hm[2])
        period == toUpperCase(tp[2])
        hours == IF period = "PM" /\ h < 12 THEN h + 12 ELSE h
    IN  IF Len(tp) < 2 THEN TypeError
        ELSE [date |-> NewDate(fullYear, mo - 1, d, hours, minutes)]

\* lines 26-40: the Date of a matched date clause; timeStr.split(' ') has a
\* second element only when the white space before AM/PM is a space
dateOf(m) ==
    LET dmy == split(m[1], "/")
        d == Number(dmy[1])
        mo == Number(dmy[2])
        y == Number(dmy[3])
        fullYear == IF y < 100 THEN 2000 + y ELSE y
        tp == split(m[2], " ")
        hm == split(tp[1], ":")
        h == Number(hm[1])
        minutes == Number(hm[2])
        period == toUpperCase(tp[2])
        h1 == IF period = "PM" /\ h < 12 THEN h + 12 ELSE h
        hours == IF period = "AM" /\ h1 = 12 THEN 0 ELSE h1
    IN  IF Len(tp) < 2 THEN TypeError
        ELSE [date |-> NewDate(fullYear, mo - 1, d, hours, minutes)]

\* the chain with 'sent to' tested before 'paid to'
typeAndMerchant_sentFirst(text) ==
    IF includes(text, "sent to") THEN
        LET match == sentToMatch(text)
        IN  [type |-> "send",
             merchant |-> IF match # NoMatch THEN trim(match[1])
                          ELSE "Unknown Recipient"]
    ELSE IF includes(text, "paid to") THEN
        LET match == paidToMatch(text)
        IN  [type |-> "paybill",
             merchant |-> IF match # NoMatch THEN trim(match[1])
                          ELSE "Unknown Merchant"]
    ELSE [type |-> "other", merchant |-> "Unknown"]

\* the chain without .trim() on the captured name
typeAndMerchant_untrimmed(text) ==
    IF includes(text, "paid to") THEN
        LET match == paidToMatch(text)
        IN  [type |-> "paybill",
             merchant |-> IF match # NoMatch THEN match[1]
                          ELSE "Unknown Merchant"]
    ELSE IF includes(text, "sent to") THEN
        LET match == sentToMatch(text)
        IN  [type |-> "send",
             merchant |-> IF match # NoMatch THEN match[1]
                          ELSE "Unknown Recipient"]
    ELSE IF includes(text, "received Ksh") THEN
        LET match == fromMatch(text)
        IN  [type |-> "receive",
             merchant |-> IF match # NoMatch THEN match[1]
                          ELSE "Unknown Sender"]
    ELSE IF includes(text, "Withdraw") THEN
        LET match == fromMatch(text)
        IN  [type |-> "withdraw",
             merchant |-> IF match # NoMatch THEN match[1]
                          ELSE "Agent"]
    ELSE IF includes(text, "Buy Goods") THEN
        LET match == toMatch(text)
        IN  [type |-> "buygoods",
             merchant |-> IF match # NoMatch THEN match[1]
                          ELSE "Merchant"]
    ELSE [type |-> "other", merchant |-> "Unknown"]

\* lines 42-66: type and merchant
typeAndMerchant(text) ==
    IF includes(text, "paid to") THEN
        LET match == paidToMatch(text)
        IN  [type |-> "paybill",
             merchant |-> IF match # NoMatch THEN trim(match[1])
                          ELSE "Unknown Merchant"]
    ELSE IF includes(text, "sent to") THEN
        LET match == sentToMatch(text)
        IN  [type |-> "send",
             merchant |-> IF match # NoMatch THEN trim(match[1])
                          ELSE "Unknown Recipient"]
    ELSE IF includes(text, "received Ksh") THEN
        LET match == fromMatch(text)
        IN  [type |-> "receive",
             merchant |-> IF match # NoMatch THEN trim(match[1])
                          ELSE "Unknown Sender"]
    ELSE IF includes(text, "Withdraw") THEN
        LET match == fromMatch(text)
        IN  [type |-> "withdraw",
             merchant |-> IF match # NoMatch THEN trim(match[1])
                          ELSE "Agent"]
    ELSE IF includes(text, "Buy Goods") THEN
        LET match == toMatch(text)
        IN  [type |-> "buygoods",
             merchant |-> IF match # NoMatch THEN trim(match[1])
                          ELSE "Merchant"]
    ELSE [type |-> "other", merchant |-> "Unknown"]

\* the amount of an optional match, 0 when there is none (lines 13, 17, 21)
amountOf(m) == IF m # NoMatch THEN parseFloat(removeCommas(m[1])) ELSE 0

\* the parser with the timestamp always read from the clock
parseMpesaSMS_clockOnly(text, clock) ==
    LET idm == mpesaIdMatch(text)
        tm == typeAndMerchant(text)
    IN  IF idm = NoMatch THEN null
        ELSE [mpesaId |-> idm[1],
              amount |-> amountOf(amountMatch(text)),
              balance |-> amountOf(balanceMatch(text)),
              cost |-> amountOf(costMatch(text)),
              date |-> clock,
              type |-> tm.type,
              merchant |-> tm.merchant,
              rawText |-> text]

\* the parser returning the whole anchor match as the id
parseMpesaSMS_wholeMatch(text, clock) ==
    LET idm == mpesaIdMatch(text)
        dm == dateMatch(text)
        date == IF dm # NoMatch THEN dateOf(dm) ELSE [date |-> clock]
        tm == typeAndMerchant(text)
    IN  IF idm = NoMatch THEN null
        ELSE IF date = TypeError THEN TypeError
        ELSE [mpesaId |-> SubSeq(text, 1, Len(idm[1]) + 10),
              amount |-> amountOf(amountMatch(text)),
              balance |-> amountOf(balanceMatch(text)),
              cost |-> amountOf(costMatch(text)),
              date |-> date.date,
              type |-> tm.type,
              merchant |-> tm.merchant,
              rawText |-> text]

parseMpesaSMS(text, clock) ==
    LET idm == mpesaIdMatch(text)
        dm == dateMatch(text)
        date == IF dm # NoMatch THEN dateOf(dm) ELSE [date |-> clock]
        tm == typeAndMerchant(text)
    IN  IF idm = NoMatch THEN null
        ELSE IF date = TypeError THEN TypeError
        ELSE [mpesaId |-> idm[1],
              amount |-> amountOf(amountMatch(text)),
              balance |-> amountOf(balanceMatch(text)),
              cost |-> amountOf(costMatch(text)),
              date |-> date.date,
              type |-> tm.type,
              merchant |-> tm.merchant,
              rawText |-> text]

----------------------------------------------------------------------------
(* The messages that are typed or shared into the app: a head (with or     *)
(* without the confirmation anchor) followed by optional clauses           *)

SampleHead == "L739H12345 Confirmed. "

AnchoredHeads == {SampleHead, "L7 Confirmed. ", "qk7\tconfirmed "}

OtherHeads ==
    {"", " L7 Confirmed. ", "Ref L7 Confirmed. ", "L7  Confirmed. ",
     "L-7 Confirmed. ", "L7 Confirm. "}

AmountClauses == {"", "Ksh1,200.00 ", "KSH 50.00 "}

KindClauses ==
    {"", "paid to SAFARICOM HOUSE. ", "sent to JOHN DOE 0712 ",
     "You have received Ksh20.00 from JANE W ",
     "Withdraw Ksh70.00 from 2468 AGENT ", "Buy Goods to NAIVAS ",
     "PAID TO KPLC. "}

DateClauses ==
    {"", "on 19/2/26 at 6:55 PM. ", "on 1/12/2025 at 12:05 AM. ",
     "on 19/2/26 at 6:55PM. ", "on 19/2/26 at 6:55\tPM. "}

BalanceClauses == {"", "New M-PESA balance is Ksh5,432.10. "}

CostClauses == {"", "Transaction cost, Ksh15.00."}

\* the message of the comment at smsParser.ts line 4
SampleBody ==
    "Ksh1,200.00 " \o "paid to SAFARICOM HOUSE. " \o "on 19/2/26 at 6:55 PM. "
      \o "New M-PESA balance is Ksh5,432.10. " \o "Transaction cost, Ksh15.00."

SampleText == SampleHead \o SampleBody

\* every combination of present and absent clauses after an anchor
ClauseTexts ==
    {"L7 Confirmed. " \o a \o k \o d \o b \o c :
        a \in AmountClauses, k \in KindClauses, d \in DateClauses,
        b \in BalanceClauses, c \in CostClauses}

\* two kind markers in one message, in either order
MarkerTexts ==
    {"L7 Confirmed. " \o k1 \o k2 \o d :
        k1 \in KindClauses, k2 \in KindClauses,
        d \in {"", "on 19/2/26 at 6:55 PM. "}}

\* every head, alone and before the sample body
HeadTexts ==
    {h \o b : h \in AnchoredHeads \cup OtherHeads,
               b \in {"", SampleBody, "on 19/2/26 at 6:55\tPM. "}}

\* the decimal digits of n, and n written with at least w digits
RECURSIVE Dec(_)
Dec(n) ==
    IF n < 10 THEN Ch("0123456789", n + 1)
    ELSE Dec(n \div 10) \o Ch("0123456789", (n % 10) + 1)

RECURSIVE Pad(_, _)
Pad(n, w) == IF Len(Dec(n)) >= w THEN Dec(n) ELSE "0" \o Pad(n, w - 1)

\* date clauses 'on D/M/Y at H:MM AM|PM' of calendar dates: every clock
\* hour 1..12 before and after noon on three dates (a two-digit year, a
\* four-digit year, the leap day), and four more in other spellings
DateSpec(d, m, y, yDigits, h, mm, period) ==
    [d |-> d, m |-> m, y |-> y, yDigits |-> yDigits, h |-> h, mm |-> mm,
     period |-> period]

DateSpecs ==
    {DateSpec(dt[1], dt[2], dt[3], dt[4], h, dt[5], p) :
        dt \in {<<19, 2, 26, 2, 55>>, <<1, 12, 2025, 4, 5>>,
                <<29, 2, 2024, 4, 0>>},
        h \in 1..12, p \in {"AM", "PM"}}
    \cup {DateSpec(31, 12, 99, 2, 11, 59, "pm"),
          DateSpec(1, 1, 0, 2, 12, 30, "am"),
          DateSpec(30, 6, 2026, 4, 12, 0, "Pm"),
          DateSpec(7, 10, 2026, 4, 9, 7, "aM")}

DateText(c) ==
    "L7 Confirmed. Ksh50.00 sent to JOHN on " \o Dec(c.d) \o "/" \o Dec(c.m)
      \o "/" \o Pad(c.y, c.yDigits) \o " at " \o Dec(c.h) \o ":"
      \o Pad(c.mm, 2) \o " " \o c.period \o ". "

DateTexts == {DateText(c) : c \in DateSpecs}

\* counterparty segments: empty, blank, holding ' on', without a date anchor
SegmentClauses ==
    {"sent to  ", "paid to . ", "paid to  \t. ", "Withdraw Ksh70.00 from \t ",
     "sent to RON on TIME ", "Buy Goods to  ",
     "You have received Ksh20.00 from  ",
     "SENT TO ALICE on 1/1/26. Ksh5.00 sent to BOB ",
     "paid to KPLC ", "Give Ksh9.00 to TOM on Monday. Buy Goods at DUKA "}

SegmentTexts ==
    {"L7 Confirmed. " \o k \o d :
        k \in SegmentClauses, d \in {"", "on 19/2/26 at 6:55 PM. "}}

Texts ==
    (ClauseTexts \cup MarkerTexts \cup HeadTexts \cup DateTexts
        \cup SegmentTexts) \ {""}

\* the clock is read in minutes; it starts on 2026-11-01 20:00
ClockStart == NewDate(2026, 10, 1, 20, 0)

MaxTicks == 1

----------------------------------------------------------------------------
(* The parser as a state machine: a text is entered, the clock advances,   *)
(* parseMpesaSMS is called on the text (any number of times)               *)

InitParser ==
    /\ smsInput = ""
    /\ parsed = NotCalled
    /\ previous = NotCalled
    /\ now = ClockStart
    /\ transactions = <<>>
    /\ recurringBills = <<>>
    /\ detected = FALSE
    /\ stored = <<>>
    /\ alerted = ""
    /\ monthlyBudget = 0
    /\ currentBalance = 0
    /\ velocity = NotCalled

\* App.tsx line 782: onChange={(e) => setSmsInput(e.target.value)}
setSmsInput(text) ==
    /\ smsInput' = text
    /\ parsed' = NotCalled
    /\ previous' = NotCalled
    /\ UNCHANGED <<now, detectorVars, storeVars, velocityVars>>

\* a message is typed or pasted into the empty box
EnterText == \E text \in Texts : smsInput = "" /\ setSmsInput(text)

\* the box is cleared (App.tsx line 198: setSmsInput(''))
ClearText == smsInput # "" /\ setSmsInput("")

\* a call parseMpesaSMS(smsInput) (App.tsx lines 144, 194)
Parse ==
    /\ parsed' = parseMpesaSMS(smsInput, now)
    /\ previous' = parsed
    /\ UNCHANGED <<smsInput, now, detectorVars, storeVars, velocityVars>>

\* the wall clock advances
Tick ==
    /\ now < ClockStart + MaxTicks
    /\ now' = now + 1
    /\ UNCHANGED <<parserVars, detectorVars, storeVars, velocityVars>>

NextParser ==
    \/ EnterText
    \/ ClearText
    \/ Parse
    \/ Tick

SpecParser == InitParser /\ [][NextParser]_vars

----------------------------------------------------------------------------
(* The analytics module: detectRecurringBills.  A Transaction is a record  *)
(* with the fields merchant, type, date (minutes) and amount (cents); a    *)
(* RecurringBill has merchant, amount (whole shillings, after Math.round), *)
(* frequency, lastDate and nextExpectedDate.                               *)

Range(seq) == {seq[i] : i \in 1..Len(seq)}

\* date-fns differenceInDays(left, right): the number of full days between
\* the two dates, the fraction discarded (truncation towards zero)
differenceInDays(left, right) ==
    IF left >= right
    THEN (left - right) \div MinutesPerDay
    ELSE -((right - left) \div MinutesPerDay)

\* Array.prototype.sort with a comparator a.k - b.k: stable, ascending in k
SortBy(seq, Key(_)) ==
    LET n == Len(seq)
        Before(j, i) ==
            \/ Key(seq[j]) < Key(seq[i])
            \/ (Key(seq[j]) = Key(seq[i]) /\ j < i)
        Pos(i) == 1 + Cardinality({j \in 1..n : Before(j, i)})
    IN  [p \in 1..n |-> seq[CHOOSE i \in 1..n : Pos(i) = p]]

RECURSIVE Sum(_)
Sum(seq) == IF seq = <<>> THEN 0 ELSE seq[1] + Sum(Tail(seq))

TxDate(t) == t.date
NextDate(b) == b.nextExpectedDate

\* the mean cut down to whole shillings
RoundedMean_floor(sumCents, count) == sumCents \div (100 * count)

\* Math.round(sum / count) for amounts in cents, in whole shillings:
\* the nearest integer, a half rounded up
RoundedMean(sumCents, count) == (2 * sumCents + 100 * count) \div (200 * count)

\* the grouping without the test on the kind
IsNotReceive_all(t) == TRUE

\* line 30
IsNotReceive(t) == t.type # "receive"

\* lines 28-37: the keys of the Map in insertion order
RECURSIVE MerchantKeys(_)
MerchantKeys(txns) ==
    IF txns = <<>> THEN <<>>
    ELSE LET n == Len(txns)
             keys == MerchantKeys(SubSeq(txns, 1, n - 1))
             key == toLowerCase(txns[n].merchant)
         IN  IF IsNotReceive(txns[n]) /\ key \notin Range(keys)
             THEN Append(keys, key) ELSE keys

\* the grouping on the name as written, letter case included
TxnsOf_exactCase(txns, key) ==
    LET SameKey(t) == IsNotReceive(t) /\ t.merchant = key
    IN  SelectSeq(txns, SameKey)

\* lines 28-37: the array stored in the Map under a key
TxnsOf(txns, key) ==
    LET SameKey(t) == IsNotReceive(t) /\ toLowerCase(t.merchant) = key
    IN  SelectSeq(txns, SameKey)

\* the gaps with days >= 0 in place of days > 0
RECURSIVE Intervals_nonNegative(_)
Intervals_nonNegative(sorted) ==
    IF Len(sorted) < 2 THEN <<>>
    ELSE LET n == Len(sorted)
             days == differenceInDays(sorted[n].date, sorted[n - 1].date)
             before == Intervals_nonNegative(SubSeq(sorted, 1, n - 1))
         IN  IF days >= 0 THEN Append(before, days) ELSE before

\* lines 49-56: the positive day gaps between consecutive sorted records
RECURSIVE Intervals(_)
Intervals(sorted) ==
    IF Len(sorted) < 2 THEN <<>>
    ELSE LET n == Len(sorted)
             days == differenceInDays(sorted[n].date, sorted[n - 1].date)
             before == Intervals(SubSeq(sorted, 1, n - 1))
         IN  IF days > 0 THEN Append(before, days) ELSE before

\* the thresholds with avgInterval <= 10 for weekly
Cadence_weeklyUpTo10(intervals) ==
    IF Sum(intervals) <= 10 * Len(intervals)
    THEN [frequency |-> "weekly", expectedDays |-> 7]
    ELSE IF Sum(intervals) < 20 * Len(intervals)
    THEN [frequency |-> "biweekly", expectedDays |-> 14]
    ELSE [frequency |-> "monthly", expectedDays |-> 30]

\* lines 58-69: frequency and step from the gaps; avgInterval < 10 is
\* compared as sum < 10 * count
Cadence(intervals) ==
    IF Sum(intervals) < 10 * Len(intervals)
    THEN [frequency |-> "weekly", expectedDays |-> 7]
    ELSE IF Sum(intervals) < 20 * Len(intervals)
    THEN [frequency |-> "biweekly", expectedDays |-> 14]
    ELSE [frequency |-> "monthly", expectedDays |-> 30]

\* the window without its two boundary values
InWindow_strict(nextExpectedDate, clock) ==
    /\ differenceInDays(nextExpectedDate, clock) < 60
    /\ differenceInDays(nextExpectedDate, clock) > -7

\* line 80: the window on the predicted date
InWindow(nextExpectedDate, clock) ==
    /\ differenceInDays(nextExpectedDate, clock) <= 60
    /\ differenceInDays(nextExpectedDate, clock) >= -7

\* line 82: merchant.charAt(0).toUpperCase() + merchant.slice(1)
Capitalize(merchant) ==
    UpperOf(Ch(merchant, 1)) \o SubSeq(merchant, 2, Len(merchant))

\* the body taking the record supplied last as the most recent one
BillsOf_lastSupplied(txns, key, clock) ==
    LET sorted == SortBy(TxnsOf(txns, key), TxDate)
        intervals == Intervals(sorted)
        cadence == Cadence(intervals)
        last == TxnsOf(txns, key)[Len(sorted)]
        nextExpectedDate == last.date + cadence.expectedDays * MinutesPerDay
    IN  IF Len(sorted) < 2 THEN <<>>
        ELSE IF Len(intervals) = 0 THEN <<>>
        ELSE IF InWindow(nextExpectedDate, clock)
        THEN <<[merchant |-> Capitalize(key),
                amount |-> RoundedMean(Sum([i \in 1..Len(sorted) |->
                                               sorted[i].amount]),
                                       Len(sorted)),
                frequency |-> cadence.frequency,
                lastDate |-> last.date,
                nextExpectedDate |-> nextExpectedDate]>>
        ELSE <<>>

\* lines 43-88: the body of merchantTransactions.forEach for one key:
\* the bills it pushes (none or one)
BillsOf(txns, key, clock) ==
    LET sorted == SortBy(TxnsOf(txns, key), TxDate)
        intervals == Intervals(sorted)
        cadence == Cadence(intervals)
        last == sorted[Len(sorted)]
        nextExpectedDate == last.date + cadence.expectedDays * MinutesPerDay
    IN  IF Len(sorted) < 2 THEN <<>>
        ELSE IF Len(intervals) = 0 THEN <<>>
        ELSE IF InWindow(nextExpectedDate, clock)
        THEN <<[merchant |-> Capitalize(key),
                amount |-> RoundedMean(Sum([i \in 1..Len(sorted) |->
                                               sorted[i].amount]),
                                       Len(sorted)),
                frequency |-> cadence.frequency,
                lastDate |-> last.date,
                nextExpectedDate |-> nextExpectedDate]>>
        ELSE <<>>

\* the bills pushed while the Map is iterated, in the order of its keys
RECURSIVE Pushed(_, _, _)
Pushed(txns, keys, clock) ==
    IF keys = <<>> THEN <<>>
    ELSE BillsOf(txns, keys[1], clock) \o Pushed(txns, Tail(keys), clock)

\* the function returning the bills as pushed, without the final sort
detectRecurringBills_unsorted(txns, clock) ==
    Pushed(txns, MerchantKeys(txns), clock)

\* lines 25-93
detectRecurringBills(txns, clock) ==
    SortBy(Pushed(txns, MerchantKeys(txns), clock), NextDate)

----------------------------------------------------------------------------
(* The transaction histories handed to the detector                        *)

\* minutes of the n-th day after 2026-08-01, at hour h
Day(n, h) == NewDate(2026, 7, 1 + n, h, 0)

Tx(merchant, type, day, hour, cents) ==
    [merchant |-> merchant, type |-> type, date |-> Day(day, hour),
     amount |-> cents]

TxMenu ==
    {Tx("kplc", "paybill", 0, 8, 150000),
     Tx("KPLC", "paybill", 0, 20, 150100),
     Tx("kplc", "paybill", 31, 8, 150050),
     Tx("zuku", "send", 37, 8, 299900),
     Tx("zuku", "send", 47, 8, 300000),
     Tx("zuku", "send", 56, 8, 300050),
     Tx("zuku", "send", 57, 8, 299900),
     Tx("zuku", "receive", 50, 8, 500000),
     Tx("ZUKU", "receive", 58, 8, 100000)}

\* the clock readings at which detection runs
DetectorNows == {Day(3, 8), Day(70, 20), Day(71, 8)}

MaxTxns == 4

InitDetector ==
    /\ smsInput = ""
    /\ parsed = NotCalled
    /\ previous = NotCalled
    /\ now \in DetectorNows
    /\ transactions = <<>>
    /\ recurringBills = <<>>
    /\ detected = FALSE
    /\ stored = <<>>
    /\ alerted = ""
    /\ monthlyBudget = 0
    /\ currentBalance = 0
    /\ velocity = NotCalled

\* one more record of the menu is in the history
AddTransaction(t) ==
    /\ Len(transactions) < MaxTxns
    /\ t \notin Range(transactions)
    /\ transactions' = Append(transactions, t)
    /\ recurringBills' = <<>>
    /\ detected' = FALSE
    /\ UNCHANGED <<parserVars, now, storeVars, velocityVars>>

\* a call detectRecurringBills(transactions)
Detect ==
    /\ ~detected
    /\ recurringBills' = detectRecurringBills(transactions, now)
    /\ detected' = TRUE
    /\ UNCHANGED <<parserVars, now, transactions, storeVars, velocityVars>>

NextDetector ==
    \/ \E t \in TxMenu : AddTransaction(t)
    \/ Detect

SpecDetector == InitDetector /\ [][NextDetector]_vars

\* histories whose counterparty names differ in letter case only ("kplc",
\* "KPLC", "Kplc") or otherwise ("kplc ltd"); the payments of day 0 and 31
\* and those of day 37 and 47 both predict day 61
NameMenu ==
    {Tx("kplc", "paybill", 0, 8, 150000),
     Tx("KPLC", "paybill", 31, 8, 150100),
     Tx("Kplc", "buygoods", 61, 8, 150250),
     Tx("kplc ltd", "paybill", 37, 8, 90000),
     Tx("KPLC LTD", "paybill", 47, 8, 90100),
     Tx("kplc ltd", "receive", 60, 8, 10000)}

NextGrouping ==
    \/ \E t \in NameMenu : AddTransaction(t)
    \/ Detect

SpecGrouping == InitDetector /\ [][NextGrouping]_vars

----------------------------------------------------------------------------
(* utils/analytics.ts: calculateSpendingVelocity.  Money is in cents.  A   *)
(* quotient is kept exact, as a fraction in lowest terms with a positive   *)
(* denominator; a division by zero gives the values NaN, Infinity and      *)
(* -Infinity of the language.                                              *)

\* Date.prototype getters, local time
DayNumber(t) == t \div MinutesPerDay

\* the year holding day number n lies between 1970 + n / 366 and
\* 1970 + n / 365 (for n >= 0)
getFullYear(t) ==
    LET n == DayNumber(t)
    IN  CHOOSE y \in (1970 + n \div 366)..(1970 + n \div 365) :
            DayFromYear(y) <= n /\ n < DayFromYear(y + 1)

getMonth(t) ==
    LET y == getFullYear(t)
        n == DayNumber(t) - DayFromYear(y)
    IN  CHOOSE mn \in 0..11 :
            /\ DaysBeforeMonth(y, mn) <= n
            /\ n < DaysBeforeMonth(y, mn) + DaysInMonth(y, mn)

getDate(t) ==
    LET y == getFullYear(t)
    IN  DayNumber(t) - DayFromYear(y) - DaysBeforeMonth(y, getMonth(t)) + 1

getHours(t) == (t % MinutesPerDay) \div 60

getMinutes(t) == t % 60

Abs(x) == IF x < 0 THEN -x ELSE x

RECURSIVE GCD(_, _)
GCD(a, b) == IF b = 0 THEN a ELSE GCD(b, a % b)

NaN == [number |-> "NaN"]
Infinity == [number |-> "Infinity"]
NegInfinity == [number |-> "-Infinity"]

isFinite(x) == x \notin {NaN, Infinity, NegInfinity}

\* the number num / den, den # 0
Frac(num, den) ==
    LET g == GCD(Abs(num), Abs(den))
        sign == IF den < 0 THEN -1 ELSE 1
    IN  [num |-> sign * (num \div g), den |-> sign * (den \div g)]

\* x * y, x - y and x / y on finite numbers
Times(x, y) == Frac(x.num * y.num, x.den * y.den)

Minus(x, y) == Frac(x.num * y.den - y.num * x.den, x.den * y.den)

Divide(x, y) ==
    IF y.num # 0 THEN Frac(x.num * y.den, x.den * y.num)
    ELSE IF x.num = 0 THEN NaN
    ELSE IF x.num > 0 THEN Infinity
    ELSE NegInfinity

\* x > n / d and x < n / d for d > 0; every comparison with NaN is false
GreaterThan(x, n, d) ==
    IF x = NaN \/ x = NegInfinity THEN FALSE
    ELSE IF x = Infinity THEN TRUE
    ELSE x.num * d > n * x.den

LessThan(x, n, d) ==
    IF x = NaN \/ x = Infinity THEN FALSE
    ELSE IF x = NegInfinity THEN TRUE
    ELSE x.num * d < n * x.den

\* the sum over the records of the clock's month in any year
MonthlyExpenses_anyYear(txns, clock) ==
    LET InMonth(t) ==
            /\ t.type # "receive"
            /\ getMonth(t.date) = getMonth(clock)
        kept == SelectSeq(txns, InMonth)
    IN  Sum([i \in 1..Len(kept) |-> kept[i].amount])

\* lines 114-121: the sum of this month's records that are not receipts
MonthlyExpenses(txns, clock) ==
    LET InMonth(t) ==
            /\ t.type # "receive"
            /\ getMonth(t.date) = getMonth(clock)
            /\ getFullYear(t.date) = getFullYear(clock)
        kept == SelectSeq(txns, InMonth)
    IN  Sum([i \in 1..Len(kept) |-> kept[i].amount])

\* the thresholds with the boundary values outside 'on-track'
StatusOf_inclusive(velocityRatio) ==
    IF ~LessThan(velocityRatio, 23, 20) /\ velocityRatio # NaN THEN "over"
    ELSE IF ~GreaterThan(velocityRatio, 17, 20) /\ velocityRatio # NaN
    THEN "under"
    ELSE "on-track"

\* lines 134-139: the thresholds 1.15 = 23/20 and 0.85 = 17/20
StatusOf(velocityRatio) ==
    IF GreaterThan(velocityRatio, 23, 20) THEN "over"
    ELSE IF LessThan(velocityRatio, 17, 20) THEN "under"
    ELSE "on-track"

\* the ratio taken against the whole monthly budget
calculateSpendingVelocity_wholeBudget(txns, budget, balance, clock) ==
    LET currentMonth == getMonth(clock)
        currentYear == getFullYear(clock)
        daysInMonth == getDate(NewDate(currentYear, currentMonth + 1, 0, 0, 0))
        dayOfMonth == getDate(clock)
        daysRemaining == daysInMonth - dayOfMonth
        monthlyExpenses == Frac(MonthlyExpenses(txns, clock), 1)
        dailyBurnRate == Divide(monthlyExpenses, Frac(dayOfMonth, 1))
        projectedTotalExpenses == Times(dailyBurnRate, Frac(daysInMonth, 1))
        projectedEndBalance ==
            Minus(Frac(balance, 1),
                  Minus(projectedTotalExpenses, monthlyExpenses))
        velocityRatio == Divide(monthlyExpenses, Frac(budget, 1))
    IN  [dailyBurnRate |-> dailyBurnRate,
         velocityRatio |-> velocityRatio,
         status |-> StatusOf(velocityRatio),
         projectedEndBalance |-> projectedEndBalance,
         daysInMonth |-> daysInMonth,
         daysRemaining |-> daysRemaining]

\* lines 98-149
calculateSpendingVelocity(txns, budget, balance, clock) ==
    LET currentMonth == getMonth(clock)
        currentYear == getFullYear(clock)
        daysInMonth == getDate(NewDate(currentYear, currentMonth + 1, 0, 0, 0))
        dayOfMonth == getDate(clock)
        daysRemaining == daysInMonth - dayOfMonth
        monthlyExpenses == Frac(MonthlyExpenses(txns, clock), 1)
        dailyBurnRate == Divide(monthlyExpenses, Frac(dayOfMonth, 1))
        projectedTotalExpenses == Times(dailyBurnRate, Frac(daysInMonth, 1))
        projectedEndBalance ==
            Minus(Frac(balance, 1),
                  Minus(projectedTotalExpenses, monthlyExpenses))
        expectedSpendToDate ==
            Times(Divide(Frac(budget, 1), Frac(daysInMonth, 1)),
                  Frac(dayOfMonth, 1))
        velocityRatio == Divide(monthlyExpenses, expectedSpendToDate)
    IN  [dailyBurnRate |-> dailyBurnRate,
         velocityRatio |-> velocityRatio,
         status |-> StatusOf(velocityRatio),
         projectedEndBalance |-> projectedEndBalance,
         daysInMonth |-> daysInMonth,
         daysRemaining |-> daysRemaining]

----------------------------------------------------------------------------
(* The histories, budgets and clock readings handed to the calculator      *)

VTx(type, year, monthIndex, day, cents) ==
    [merchant |-> "naivas", type |-> type,
     date |-> NewDate(year, monthIndex, day, 9, 30), amount |-> cents]

VelocityMenu ==
    {VTx("buygoods", 2026, 10, 3, 300000),
     VTx("send", 2026, 10, 5, 45000),
     VTx("paybill", 2026, 10, 1, 255000),
     VTx("withdraw", 2026, 10, 10, 100),
     VTx("receive", 2026, 10, 4, 500000),
     VTx("paybill", 2025, 10, 3, 70000),
     VTx("send", 2026, 9, 31, 80000)}

\* 1, 10 and 30 November 2026 (a month of 30 days), 10 December 2026 (31
\* days)
VelocityNows ==
    {NewDate(2026, 10, 1, 12, 0), NewDate(2026, 10, 10, 12, 0),
     NewDate(2026, 10, 30, 12, 0), NewDate(2026, 11, 10, 12, 0)}

Budgets == {0, 900000}

Balances == {0, 500000}

MaxHistory == 3

InitVelocity ==
    /\ smsInput = ""
    /\ parsed = NotCalled
    /\ previous = NotCalled
    /\ now \in VelocityNows
    /\ transactions = <<>>
    /\ recurringBills = <<>>
    /\ detected = FALSE
    /\ stored = <<>>
    /\ alerted = ""
    /\ monthlyBudget \in Budgets
    /\ currentBalance \in Balances
    /\ velocity = NotCalled

\* one more record is in the history
RecordTransaction(t) ==
    /\ Len(transactions) < MaxHistory
    /\ transactions' = Append(transactions, t)
    /\ velocity' = NotCalled
    /\ UNCHANGED <<parserVars, now, recurringBills, detected, storeVars,
                   monthlyBudget, currentBalance>>

\* a call calculateSpendingVelocity(transactions, monthlyBudget, currentBalance)
Calculate ==
    /\ velocity = NotCalled
    /\ velocity' = calculateSpendingVelocity(transactions, monthlyBudget,
                                             currentBalance, now)
    /\ UNCHANGED <<parserVars, now, detectorVars, storeVars, monthlyBudget,
                   currentBalance>>

NextVelocity ==
    \/ \E t \in VelocityMenu : RecordTransaction(t)
    \/ Calculate

SpecVelocity == InitVelocity /\ [][NextVelocity]_vars

----------------------------------------------------------------------------
(* utils/analytics.ts: calculateSpendingVelocity as the runtime computes   *)
(* it.  The numbers of the language are IEEE 754 binary64 and every        *)
(* operation is rounded to nearest, ties to even.  A natural number is the *)
(* sequence of its binary digits, lowest first, without leading zeros (0   *)
(* is <<>>).  A finite double is [neg, m, e] with the value                *)
(* (-1)^neg * m * 2^e, where m has exactly 53 digits, or it is Zero64.     *)
(* The values met here are far from the subnormal and the overflow range,  *)
(* which are left out.  In the recursions over a range of digits the       *)
(* carry of one half is tested before the other half is entered, so that   *)
(* the halves are evaluated one after the other.                           *)

RECURSIVE Bits(_)
Bits(n) == IF n = 0 THEN <<>> ELSE <<n % 2>> \o Bits(n \div 2)

Zeros(k) == [i \in 1..k |-> 0]

Bit(a, i) == IF i <= Len(a) THEN a[i] ELSE 0

\* a * 2^k
ShiftLeft(a, k) == IF a = <<>> THEN <<>> ELSE Zeros(k) \o a

\* the position of the highest digit 1 among the digits lo..hi of a, or 0
\* (the range is searched half by half)
RECURSIVE TopOne(_, _, _)
TopOne(a, lo, hi) ==
    IF lo > hi THEN 0
    ELSE IF lo = hi THEN (IF a[lo] = 1 THEN lo ELSE 0)
    ELSE LET mid == (lo + hi) \div 2
             top == TopOne(a, mid + 1, hi)
         IN  IF top # 0 THEN top ELSE TopOne(a, lo, mid)

\* a without its leading zeros
Strip(a) == SubSeq(a, 1, TopOne(a, 1, Len(a)))

\* the digits lo..hi of a + b + c and the carry out of them
RECURSIVE AddRange(_, _, _, _, _)
AddRange(a, b, c, lo, hi) ==
    IF lo = hi
    THEN LET s == Bit(a, lo) + Bit(b, lo) + c
         IN  [s |-> <<s % 2>>, c |-> s \div 2]
    ELSE LET mid == (lo + hi) \div 2
             low == AddRange(a, b, c, lo, mid)
             high == AddRange(a, b, low.c, mid + 1, hi)
         IN  IF low.c = 0 THEN [s |-> low.s \o high.s, c |-> high.c]
             ELSE [s |-> low.s \o high.s, c |-> high.c]

AddBits(a, b) ==
    IF a = <<>> THEN b
    ELSE IF b = <<>> THEN a
    ELSE LET n == IF Len(a) > Len(b) THEN Len(a) ELSE Len(b)
             sum == AddRange(a, b, 0, 1, n)
         IN  IF sum.c = 1 THEN Append(sum.s, 1) ELSE sum.s

\* the digits lo..hi of a - b - c and the borrow out of them
RECURSIVE SubRange(_, _, _, _, _)
SubRange(a, b, c, lo, hi) ==
    IF lo = hi
    THEN LET s == Bit(a, lo) - Bit(b, lo) - c
         IN  IF s < 0 THEN [s |-> <<s + 2>>, c |-> 1]
             ELSE [s |-> <<s>>, c |-> 0]
    ELSE LET mid == (lo + hi) \div 2
             low == SubRange(a, b, c, lo, mid)
             high == SubRange(a, b, low.c, mid + 1, hi)
         IN  IF low.c = 0 THEN [s |-> low.s \o high.s, c |-> high.c]
             ELSE [s |-> low.s \o high.s, c |-> high.c]

\* a - b for a >= b
SubBits(a, b) ==
    IF b = <<>> THEN a ELSE Strip(SubRange(a, b, 0, 1, Len(a)).s)

LessBits(a, b) ==
    \/ Len(a) < Len(b)
    \/ /\ Len(a) = Len(b)
       /\ \E i \in 1..Len(a) :
             /\ a[i] < b[i]
             /\ \A j \in (i + 1)..Len(a) : a[j] = b[j]

\* a times the number written by the digits lo..hi of b
RECURSIVE MulRange(_, _, _, _)
MulRange(a, b, lo, hi) ==
    IF lo = hi THEN (IF b[lo] = 1 THEN a ELSE <<>>)
    ELSE LET mid == (lo + hi) \div 2
         IN  AddBits(MulRange(a, b, lo, mid),
                     ShiftLeft(MulRange(a, b, mid + 1, hi), mid + 1 - lo))

MulBits(a, b) ==
    IF a = <<>> \/ b = <<>> THEN <<>> ELSE MulRange(a, b, 1, Len(b))

\* long division by d over the digits hi down to lo of a, entered with the
\* remainder r: the quotient digits of these positions and the remainder
RECURSIVE DivRange(_, _, _, _, _)
DivRange(a, d, r, lo, hi) ==
    IF lo = hi
    THEN LET r2 == IF r = <<>> /\ a[lo] = 0 THEN <<>> ELSE <<a[lo]>> \o r
         IN  IF LessBits(r2, d) THEN [q |-> <<0>>, r |-> r2]
             ELSE [q |-> <<1>>, r |-> SubBits(r2, d)]
    ELSE LET mid == (lo + hi) \div 2
             high == DivRange(a, d, r, mid + 1, hi)
             low == DivRange(a, d, high.r, lo, mid)
         IN  IF high.r = <<>> THEN [q |-> low.q \o high.q, r |-> low.r]
             ELSE [q |-> low.q \o high.q, r |-> low.r]

\* quotient and remainder of a by d, for a # 0 and d # 0
LongDiv(a, d) ==
    LET all == DivRange(a, d, <<>>, 1, Len(a))
    IN  [q |-> Strip(all.q), r |-> all.r]

Zero64 == [neg |-> FALSE, m |-> <<>>, e |-> 0]

\* the double nearest to (-1)^neg * (n + f) * 2^e, where 0 <= f < 1 and
\* f > 0 exactly when sticky; ties to even
Round64(neg, n, e, sticky) ==
    LET len == Len(n)
        k == len - 53
        kept == SubSeq(n, k + 1, len)
        low == sticky \/ \E i \in 1..(k - 1) : n[i] = 1
        up == n[k] = 1 /\ (low \/ kept[1] = 1)
        m1 == IF up THEN AddBits(kept, <<1>>) ELSE kept
    IN  IF n = <<>> THEN Zero64
        ELSE IF k <= 0
        THEN [neg |-> neg, m |-> Zeros(-k) \o n, e |-> e + k]
        ELSE IF Len(m1) = 54
        THEN [neg |-> neg, m |-> Tail(m1), e |-> e + k + 1]
        ELSE [neg |-> neg, m |-> m1, e |-> e + k]

\* the double of a natural number below 2^31
FromNat64(n) == Round64(FALSE, Bits(n), 0, FALSE)

Negate64(x) == IF x = Zero64 THEN x ELSE [x EXCEPT !.neg = ~x.neg]

\* x + y on finite doubles
Add64(x, y) ==
    IF x = Zero64 THEN y
    ELSE IF y = Zero64 THEN x
    ELSE LET e == IF x.e < y.e THEN x.e ELSE y.e
             a == Zeros(x.e - e) \o x.m
             b == Zeros(y.e - e) \o y.m
         IN  IF x.neg = y.neg THEN Round64(x.neg, AddBits(a, b), e, FALSE)
             ELSE IF LessBits(a, b)
             THEN Round64(y.neg, SubBits(b, a), e, FALSE)
             ELSE Round64(x.neg, SubBits(a, b), e, FALSE)

Sub64(x, y) == Add64(x, Negate64(y))

Mul64(x, y) ==
    IF x = Zero64 \/ y = Zero64 THEN Zero64
    ELSE Round64(x.neg # y.neg, MulBits(x.m, y.m), x.e + y.e, FALSE)

\* x / y on finite doubles; 0/0 is NaN, x/0 an infinity
Div64(x, y) ==
    IF y = Zero64
    THEN IF x = Zero64 THEN NaN ELSE IF x.neg THEN NegInfinity ELSE Infinity
    ELSE IF x = Zero64 THEN Zero64
    ELSE LET d == LongDiv(Zeros(56) \o x.m, y.m)
         IN  Round64(x.neg # y.neg, d.q, x.e - y.e - 56, d.r # <<>>)

\* x < y on finite doubles
Less64(x, y) == Sub64(x, y).neg

\* a numeric literal or a parsed text with two fraction digits: the double
\* nearest to cents / 100
FromCents64(cents) == Div64(FromNat64(cents), FromNat64(100))

\* lines 114-121 on doubles: reduce((sum, t) => sum + t.amount, 0) over the
\* kept records, in the order of the input
RECURSIVE SumAmounts64(_)
SumAmounts64(kept) ==
    IF kept = <<>> THEN Zero64
    ELSE Add64(SumAmounts64(SubSeq(kept, 1, Len(kept) - 1)),
               kept[Len(kept)].amount)

MonthlyExpenses64(txns, clock) ==
    LET InMonth(t) ==
            /\ t.type # "receive"
            /\ getMonth(t.date) = getMonth(clock)
            /\ getFullYear(t.date) = getFullYear(clock)
    IN  SumAmounts64(SelectSeq(txns, InMonth))

\* lines 134-139 on doubles; the literals 1.15 and 0.85 are the doubles
\* nearest to them, and every comparison with NaN is false
StatusOf64(velocityRatio) ==
    IF velocityRatio = NaN THEN "on-track"
    ELSE IF velocityRatio = Infinity THEN "over"
    ELSE IF velocityRatio = NegInfinity THEN "under"
    ELSE IF Less64(FromCents64(115), velocityRatio) THEN "over"
    ELSE IF Less64(velocityRatio, FromCents64(85)) THEN "under"
    ELSE "on-track"

\* the projection taking the whole projected spend off the balance
calculateSpendingVelocity64_wholeSpend(txns, budget, balance, clock) ==
    LET currentMonth == getMonth(clock)
        currentYear == getFullYear(clock)
        daysInMonth == getDate(NewDate(currentYear, currentMonth + 1, 0, 0, 0))
        dayOfMonth == getDate(clock)
        daysRemaining == daysInMonth - dayOfMonth
        monthlyExpenses == MonthlyExpenses64(txns, clock)
        dailyBurnRate == Div64(monthlyExpenses, FromNat64(dayOfMonth))
        projectedTotalExpenses == Mul64(dailyBurnRate, FromNat64(daysInMonth))
        projectedEndBalance == Sub64(balance, projectedTotalExpenses)
        expectedSpendToDate ==
            Mul64(Div64(budget, FromNat64(daysInMonth)), FromNat64(dayOfMonth))
        velocityRatio == Div64(monthlyExpenses, expectedSpendToDate)
    IN  [dailyBurnRate |-> dailyBurnRate,
         velocityRatio |-> velocityRatio,
         status |-> StatusOf64(velocityRatio),
         projectedEndBalance |-> projectedEndBalance,
         daysInMonth |-> daysInMonth,
         daysRemaining |-> daysRemaining]

\* lines 98-149 on doubles; budget and balance are doubles, the amounts of
\* the records are doubles
calculateSpendingVelocity64(txns, budget, balance, clock) ==
    LET currentMonth == getMonth(clock)
        currentYear == getFullYear(clock)
        daysInMonth == getDate(NewDate(currentYear, currentMonth + 1, 0, 0, 0))
        dayOfMonth == getDate(clock)
        daysRemaining == daysInMonth - dayOfMonth
        monthlyExpenses == MonthlyExpenses64(txns, clock)
        dailyBurnRate == Div64(monthlyExpenses, FromNat64(dayOfMonth))
        projectedTotalExpenses == Mul64(dailyBurnRate, FromNat64(daysInMonth))
        projectedEndBalance ==
            Sub64(balance, Sub64(projectedTotalExpenses, monthlyExpenses))
        expectedSpendToDate ==
            Mul64(Div64(budget, FromNat64(daysInMonth)), FromNat64(dayOfMonth))
        velocityRatio == Div64(monthlyExpenses, expectedSpendToDate)
    IN  [dailyBurnRate |-> dailyBurnRate,
         velocityRatio |-> velocityRatio,
         status |-> StatusOf64(velocityRatio),
         projectedEndBalance |-> projectedEndBalance,
         daysInMonth |-> daysInMonth,
         daysRemaining |-> daysRemaining]

\* records of November 2026 with their amounts as doubles
VTx64(type, day, cents) ==
    [merchant |-> "naivas", type |-> type,
     date |-> NewDate(2026, 10, day, 9, 30), amount |-> FromCents64(cents)]

VelocityMenu64 ==
    {VTx64("buygoods", 3, 395000), VTx64("send", 5, 25000),
     VTx64("withdraw", 10, 12922), VTx64("receive", 4, 500000)}

\* 10 and 30 November 2026
VelocityNows64 ==
    {NewDate(2026, 10, 10, 12, 0), NewDate(2026, 10, 30, 12, 0)}

Budgets64 == {FromCents64(900000)}

Balances64 == {Zero64, FromCents64(500000)}

MaxAddends == 2

InitVelocity64 ==
    /\ smsInput = ""
    /\ parsed = NotCalled
    /\ previous = NotCalled
    /\ now \in VelocityNows64
    /\ transactions = <<>>
    /\ recurringBills = <<>>
    /\ detected = FALSE
    /\ stored = <<>>
    /\ alerted = ""
    /\ monthlyBudget \in Budgets64
    /\ currentBalance \in Balances64
    /\ velocity = NotCalled

\* one more record is in the history
RecordTransaction64(t) ==
    /\ Len(transactions) < MaxAddends
    /\ transactions' = Append(transactions, t)
    /\ velocity' = NotCalled
    /\ UNCHANGED <<parserVars, now, recurringBills, detected, storeVars,
                   monthlyBudget, currentBalance>>

\* a call calculateSpendingVelocity(transactions, monthlyBudget, currentBalance)
Calculate64 ==
    /\ velocity = NotCalled
    /\ velocity' = calculateSpendingVelocity64(transactions, monthlyBudget,
                                               currentBalance, now)
    /\ UNCHANGED <<parserVars, now, detectorVars, storeVars, monthlyBudget,
                   currentBalance>>

NextVelocity64 ==
    \/ \E t \in VelocityMenu64 : RecordTransaction64(t)
    \/ Calculate64

SpecVelocity64 == InitVelocity64 /\ [][NextVelocity64]_vars

----------------------------------------------------------------------------
(* App.tsx: the "add transaction" box and the local store.  db.transactions *)
(* has the auto-incremented key id ('++id'); add() appends the record.     *)

CouldNotParse ==
    "Could not parse SMS. Please ensure it is a valid M-Pesa message."

AlreadyExists == "Transaction already exists or invalid format."

\* the messages submitted to the store: with the anchor (three of them
\* parsed to a record, one making the parser throw) and without it
StoreTexts ==
    {SampleText, "L7 Confirmed. ", "qk7\tconfirmed " \o SampleBody,
     "L7 Confirmed. on 19/2/26 at 6:55\tPM. ",
     " L7 Confirmed. " \o SampleBody, "Ref L7 Confirmed. ",
     "L7 Confirm. " \o SampleBody}

MaxStored == 2

InitStore ==
    /\ smsInput = ""
    /\ parsed = NotCalled
    /\ previous = NotCalled
    /\ now = ClockStart
    /\ transactions = <<>>
    /\ recurringBills = <<>>
    /\ detected = FALSE
    /\ stored = <<>>
    /\ alerted = ""
    /\ monthlyBudget = 0
    /\ currentBalance = 0
    /\ velocity = NotCalled

\* a message is typed or pasted into the empty box (line 782)
TypeText == \E text \in StoreTexts : smsInput = "" /\ setSmsInput(text)

\* lines 141-148: a message shared to the app is put into the box when the
\* parser returns a record for it
ShareText ==
    \E text \in StoreTexts :
        /\ smsInput = ""
        /\ IsRecord(parseMpesaSMS(text, now))
        /\ setSmsInput(text)

\* the handler storing the raw text of a message that was not recognised
handleAddTransaction_coerce ==
    LET result == parseMpesaSMS(smsInput, now)
        record == IF result # null THEN result
                  ELSE [mpesaId |-> "", amount |-> 0, balance |-> 0,
                        cost |-> 0, date |-> now, type |-> "other",
                        merchant |-> "Unknown", rawText |-> smsInput]
    IN  /\ parsed' = result
        /\ previous' = parsed
        /\ IF result = TypeError
           THEN /\ alerted' = ""
                /\ UNCHANGED <<smsInput, stored>>
           ELSE \/ /\ Len(stored) < MaxStored
                   /\ stored' = Append(stored, record)
                   /\ smsInput' = ""
                   /\ alerted' = ""
                \/ /\ alerted' = AlreadyExists
                   /\ UNCHANGED <<smsInput, stored>>
        /\ UNCHANGED <<now, detectorVars, velocityVars>>

\* lines 193-207; db.transactions.add resolves or rejects.  An exception
\* thrown by the parser leaves the handler before anything else is done.
handleAddTransaction ==
    LET result == parseMpesaSMS(smsInput, now)
    IN  /\ parsed' = result
        /\ previous' = parsed
        /\ IF result = TypeError
           THEN /\ alerted' = ""
                /\ UNCHANGED <<smsInput, stored>>
           ELSE IF result # null
           THEN \/ /\ Len(stored) < MaxStored
                   /\ stored' = Append(stored, result)
                   /\ smsInput' = ""
                   /\ alerted' = ""
                \/ /\ alerted' = AlreadyExists
                   /\ UNCHANGED <<smsInput, stored>>
           ELSE /\ alerted' = CouldNotParse
                /\ UNCHANGED <<smsInput, stored>>
        /\ UNCHANGED <<now, detectorVars, velocityVars>>

NextStore ==
    \/ TypeText
    \/ ClearText
    \/ ShareText
    \/ handleAddTransaction

SpecStore == InitStore /\ [][NextStore]_vars

----------------------------------------------------------------------------
(* Properties of the parser                                                *)

\* the confirmation anchor "<code> Confirmed" of the message format: the
\* text begins with one or more alphanumeric characters, one white-space
\* character and the word, in any letter case
BeginsWithAnchor(text) ==
    \E k \in 1..(Len(text) - 10) :
        /\ \A j \in 1..k : Ch(text, j) \in AlphaNum
        /\ Ch(text, k + 1) \in WhiteSpace
        /\ toLowerCase(SubSeq(text, k + 2, k + 10)) = "confirmed"

\* C1: a text that does not begin with the confirmation anchor is answered
\* with null (the call returns, it does not throw), also when the anchor
\* stands after leading characters or later in the body
C1_NotRecognized ==
    (parsed # NotCalled /\ ~BeginsWithAnchor(smsInput)) => parsed = null

C1_Witness ==
    /\ parsed = null
    /\ ~BeginsWithAnchor(smsInput)
    /\ includes(smsInput, "L7 Confirmed. on 19/2/26")

\* C2: the sample message yields externalId L739H12345, amount 1200.00,
\* fee 15.00, balanceAfter 5432.10, kind paybill, counterparty SAFARICOM
\* HOUSE and occurredAt 2026-02-19 18:55 (day 20503 since 1970-01-01)
C2_Sample ==
    (smsInput = SampleText /\ parsed # NotCalled) =>
        /\ IsRecord(parsed)
        /\ parsed.mpesaId = "L739H12345"
        /\ parsed.amount = 120000
        /\ parsed.cost = 1500
        /\ parsed.balance = 543210
        /\ parsed.type = "paybill"
        /\ parsed.merchant = "SAFARICOM HOUSE"
        /\ parsed.date = 20503 * (24 * 60) + 18 * 60 + 55

C2_Witness == smsInput = SampleText /\ IsRecord(parsed)

\* the text holds an 'on <date> at <time>' clause
HasDateClause(text) == dateMatch(text) # NoMatch

\* C3: a second call on the same text returns a record equal to the first
\* in mpesaId, amount, cost, balance, type, merchant and rawText; the dates
\* are equal when the text has the date clause, and otherwise each date is
\* the clock reading of its own call
C3_Idempotent ==
    [][Parse =>
         /\ (IsRecord(parsed') /\ ~HasDateClause(smsInput))
                => parsed'.date = now
         /\ (IsRecord(parsed) /\ IsRecord(parsed')) =>
              /\ parsed'.mpesaId = parsed.mpesaId
              /\ parsed'.amount = parsed.amount
              /\ parsed'.cost = parsed.cost
              /\ parsed'.balance = parsed.balance
              /\ parsed'.type = parsed.type
              /\ parsed'.merchant = parsed.merchant
              /\ parsed'.rawText = parsed.rawText
              /\ HasDateClause(smsInput) => parsed'.date = parsed.date]_vars

\* two calls on one text without the clause, the clock having advanced
C3_Witness ==
    /\ IsRecord(parsed)
    /\ IsRecord(previous)
    /\ parsed.date # previous.date

\* two calls on one text with the clause, the second after the clock advanced
C3_WitnessClause ==
    /\ IsRecord(parsed)
    /\ IsRecord(previous)
    /\ HasDateClause(smsInput)
    /\ now > ClockStart

\* C4: every text with the anchor yields a record, whatever else is
\* missing: amount is the first currency amount or 0, balance the amount
\* after 'balance is' or 0, cost the amount after 'cost,' or 0
C4_NoErrorPastAnchor ==
    (parsed # NotCalled /\ BeginsWithAnchor(smsInput)) =>
        /\ IsRecord(parsed)
        /\ parsed.amount = amountOf(amountMatch(smsInput))
        /\ parsed.balance = amountOf(balanceMatch(smsInput))
        /\ parsed.cost = amountOf(costMatch(smsInput))

\* the kind markers in priority order, with the kind each stands for
Markers ==
    <<[phrase |-> "paid to", kind |-> "paybill"],
      [phrase |-> "sent to", kind |-> "send"],
      [phrase |-> "received Ksh", kind |-> "receive"],
      [phrase |-> "Withdraw", kind |-> "withdraw"],
      [phrase |-> "Buy Goods", kind |-> "buygoods"]>>

MarkersIn(text) == {i \in 1..Len(Markers) : includes(text, Markers[i].phrase)}

\* the counterparty that the extraction of one kind gives
CounterpartyOf(kind, text) ==
    LET m == CASE kind = "paybill" -> paidToMatch(text)
               [] kind = "send" -> sentToMatch(text)
               [] kind = "receive" -> fromMatch(text)
               [] kind = "withdraw" -> fromMatch(text)
               [] kind = "buygoods" -> toMatch(text)
        placeholder ==
             CASE kind = "paybill" -> "Unknown Merchant"
               [] kind = "send" -> "Unknown Recipient"
               [] kind = "receive" -> "Unknown Sender"
               [] kind = "withdraw" -> "Agent"
               [] kind = "buygoods" -> "Merchant"
    IN  IF m # NoMatch THEN trim(m[1]) ELSE placeholder

\* C5: the marker of highest priority that occurs in the text decides the
\* kind and the counterparty; without any marker the kind is 'other' and
\* the counterparty 'Unknown'
C5_MarkerPriority ==
    IsRecord(parsed) =>
        LET present == MarkersIn(smsInput)
        IN  IF present = {}
            THEN parsed.type = "other" /\ parsed.merchant = "Unknown"
            ELSE LET first == Markers[Min(present)]
                 IN  /\ parsed.type = first.kind
                     /\ parsed.merchant = CounterpartyOf(first.kind, smsInput)

\* a lower-priority marker stands in the text before the winning one
C5_Witness ==
    /\ IsRecord(parsed)
    /\ includes(smsInput, "sent to JOHN DOE 0712 paid to SAFARICOM HOUSE. on")
    /\ parsed.type = "paybill"
    /\ parsed.merchant = "SAFARICOM HOUSE"

C5_WitnessOther ==
    /\ IsRecord(parsed)
    /\ MarkersIn(smsInput) = {}
    /\ includes(smsInput, "PAID TO")

Kinds == {"send", "receive", "paybill", "buygoods", "withdraw", "other"}

\* C6: a record has a non-empty mpesaId that is the leading code of the
\* text (its alphanumeric prefix, ended by white space), a non-empty rawText
\* that is the text itself, and a type among the six kinds
C6_RecordInvariant ==
    IsRecord(parsed) =>
        /\ parsed.mpesaId # ""
        /\ parsed.mpesaId = SubSeq(smsInput, 1, Len(parsed.mpesaId))
        /\ \A j \in 1..Len(parsed.mpesaId) : Ch(parsed.mpesaId, j) \in AlphaNum
        /\ Ch(smsInput, Len(parsed.mpesaId) + 1) \in WhiteSpace
        /\ parsed.rawText # ""
        /\ parsed.rawText = smsInput
        /\ parsed.type \in Kinds

C6_Witness ==
    /\ IsRecord(parsed)
    /\ parsed.mpesaId = "qk7"
    /\ parsed.type = "other"

----------------------------------------------------------------------------
(* Properties of the detector                                              *)

\* the records of the history that belong to a bill's counterparty: not of
\* kind receive, the name equal up to letter case
Members(bill) ==
    {i \in 1..Len(transactions) :
        /\ transactions[i].type # "receive"
        /\ toLowerCase(transactions[i].merchant) = toLowerCase(bill.merchant)}

MembersOfKey(key) ==
    {i \in 1..Len(transactions) :
        /\ transactions[i].type # "receive"
        /\ toLowerCase(transactions[i].merchant) = key}

\* two members are consecutive in date order: no member lies strictly between
Consecutive(M, i, j) ==
    /\ i # j
    /\ transactions[i].date <= transactions[j].date
    /\ ~\E k \in M : /\ transactions[i].date < transactions[k].date
                     /\ transactions[k].date < transactions[j].date

HasPositiveGap(M) ==
    \E i, j \in M :
        /\ Consecutive(M, i, j)
        /\ differenceInDays(transactions[j].date, transactions[i].date) > 0

BillsFor(key) ==
    {b \in 1..Len(recurringBills) :
        toLowerCase(recurringBills[b].merchant) = key}

\* C7: no forecast for a counterparty with fewer than two non-receive
\* records, nor for a group without a strictly positive day gap between
\* consecutive date-sorted records
C7_MinimumTwoAndGap ==
    detected =>
        \A b \in 1..Len(recurringBills) :
            /\ Cardinality(Members(recurringBills[b])) >= 2
            /\ HasPositiveGap(Members(recurringBills[b]))

\* a counterparty with one record and one with two records less than a day
\* apart, neither forecast, though a third is
C7_Witness ==
    /\ detected
    /\ Cardinality(MembersOfKey("kplc")) = 2
    /\ ~HasPositiveGap(MembersOfKey("kplc"))
    /\ Cardinality(MembersOfKey("zuku")) = 1
    /\ recurringBills = <<>>

\* the positive day gaps of a bill's group, in date order
GapsOf(bill) ==
    Intervals(SortBy(TxnsOf(transactions, toLowerCase(bill.merchant)), TxDate))

\* C8: the cadence follows the mean of the positive gaps: below 10 weekly
\* (step 7), from 10 to below 20 biweekly (step 14), 20 and more monthly
\* (step 30); two records 30 or 31 days apart give monthly
C8_Cadence ==
    detected =>
        \A b \in 1..Len(recurringBills) :
            LET bill == recurringBills[b]
                gaps == GapsOf(bill)
                total == Sum(gaps)
                count == Len(gaps)
                step == (bill.nextExpectedDate - bill.lastDate) \div MinutesPerDay
            IN  /\ count >= 1
                /\ (total < 10 * count) =>
                      (bill.frequency = "weekly" /\ step = 7)
                /\ (10 * count <= total /\ total < 20 * count) =>
                      (bill.frequency = "biweekly" /\ step = 14)
                /\ (total >= 20 * count) =>
                      (bill.frequency = "monthly" /\ step = 30)
                /\ (Cardinality(Members(bill)) = 2 /\ gaps \in {<<30>>, <<31>>})
                      => bill.frequency = "monthly"

\* a mean of exactly 10 (biweekly) beside two records 30 days apart (monthly)
C8_Witness ==
    /\ detected
    /\ Len(recurringBills) = 2
    /\ \E b \in 1..2 : /\ GapsOf(recurringBills[b]) = <<10>>
                       /\ recurringBills[b].frequency = "biweekly"
    /\ \E b \in 1..2 : /\ GapsOf(recurringBills[b]) = <<30>>
                       /\ recurringBills[b].frequency = "monthly"

\* a mean of exactly 20 is monthly, a mean of 9.5 weekly
C8_WitnessTwenty ==
    /\ detected
    /\ \E b \in 1..Len(recurringBills) :
          /\ GapsOf(recurringBills[b]) = <<20>>
          /\ recurringBills[b].frequency = "monthly"

C8_WitnessWeekly ==
    /\ detected
    /\ \E b \in 1..Len(recurringBills) :
          /\ GapsOf(recurringBills[b]) = <<10, 9>>
          /\ recurringBills[b].frequency = "weekly"

\* daysUntil(nextExpectedAt): whole days from now to the predicted date
daysUntil(date) == differenceInDays(date, now)

\* the date predicted for a group that passed the earlier steps
PredictedFor(key) ==
    LET sorted == SortBy(TxnsOf(transactions, key), TxDate)
    IN  sorted[Len(sorted)].date
            + Cadence(Intervals(sorted)).expectedDays * MinutesPerDay

\* C9: every forecast lies in the window -7 <= daysUntil <= 60, and every
\* group with two records and a positive gap whose predicted date lies in
\* the window is returned; -7 and 60 are inside, -8 and 61 outside
C9_Window ==
    detected =>
        /\ \A b \in 1..Len(recurringBills) :
              /\ daysUntil(recurringBills[b].nextExpectedDate) >= -7
              /\ daysUntil(recurringBills[b].nextExpectedDate) <= 60
        /\ \A key \in Range(MerchantKeys(transactions)) :
              LET M == MembersOfKey(key)
              IN  (/\ Cardinality(M) >= 2
                   /\ HasPositiveGap(M)
                   /\ daysUntil(PredictedFor(key)) >= -7
                   /\ daysUntil(PredictedFor(key)) <= 60)
                  => \E b \in BillsFor(key) :
                        recurringBills[b].nextExpectedDate = PredictedFor(key)

\* one forecast exactly 60 days ahead is returned while a group predicted
\* beyond the window is left out
C9_Witness ==
    /\ detected
    /\ \E b \in 1..Len(recurringBills) :
          /\ daysUntil(recurringBills[b].nextExpectedDate) = 60
          /\ recurringBills[b].nextExpectedDate - now = 60 * MinutesPerDay

C9_WitnessOverdue ==
    /\ detected
    /\ \E b \in 1..Len(recurringBills) :
          /\ daysUntil(recurringBills[b].nextExpectedDate) = -7
          /\ now - recurringBills[b].nextExpectedDate = 7 * MinutesPerDay

\* a forecast seven days and some hours overdue counts seven whole days
C9_WitnessPartialDay ==
    /\ detected
    /\ \E b \in 1..Len(recurringBills) :
          /\ daysUntil(recurringBills[b].nextExpectedDate) = -7
          /\ now - recurringBills[b].nextExpectedDate > 7 * MinutesPerDay

C9_WitnessTooFar ==
    /\ detected
    /\ \E key \in Range(MerchantKeys(transactions)) :
          /\ Cardinality(MembersOfKey(key)) >= 2
          /\ HasPositiveGap(MembersOfKey(key))
          /\ daysUntil(PredictedFor(key)) = 61
          /\ BillsFor(key) = {}

C9_WitnessTooOld ==
    /\ detected
    /\ \E key \in Range(MerchantKeys(transactions)) :
          /\ Cardinality(MembersOfKey(key)) >= 2
          /\ HasPositiveGap(MembersOfKey(key))
          /\ daysUntil(PredictedFor(key)) = -8
          /\ BillsFor(key) = {}

\* C10: the returned list is ascending in nextExpectedDate
C10_Ascending ==
    detected =>
        \A b \in 1..(Len(recurringBills) - 1) :
            recurringBills[b].nextExpectedDate
                <= recurringBills[b + 1].nextExpectedDate

\* two forecasts, the later one belonging to the counterparty seen first
C10_Witness ==
    /\ detected
    /\ Len(recurringBills) = 2
    /\ recurringBills[1].nextExpectedDate < recurringBills[2].nextExpectedDate
    /\ toLowerCase(recurringBills[2].merchant) = MerchantKeys(transactions)[1]

----------------------------------------------------------------------------
(* Properties of the calculator                                            *)

\* the report's velocityRatio as a pair: numerator and denominator
Ratio == velocity.velocityRatio

\* C11: a ratio above 1.15 gives 'over', a ratio below 0.85 gives 'under',
\* and every ratio from 0.85 to 1.15, both ends included, gives 'on-track'
C11_StatusThresholds ==
    (velocity # NotCalled /\ isFinite(Ratio)) =>
        /\ (100 * Ratio.num > 115 * Ratio.den) => velocity.status = "over"
        /\ (100 * Ratio.num < 85 * Ratio.den) => velocity.status = "under"
        /\ (/\ 100 * Ratio.num >= 85 * Ratio.den
            /\ 100 * Ratio.num <= 115 * Ratio.den)
              => velocity.status = "on-track"

\* a ratio of exactly 1.15 is on track
C11_Witness ==
    /\ velocity # NotCalled
    /\ Ratio = [num |-> 23, den |-> 20]
    /\ velocity.status = "on-track"

\* a ratio of exactly 0.85 is on track
C11_WitnessLow ==
    /\ velocity # NotCalled
    /\ Ratio = [num |-> 17, den |-> 20]
    /\ velocity.status = "on-track"

\* ratios just outside the interval
C11_WitnessOver ==
    /\ velocity # NotCalled
    /\ isFinite(Ratio)
    /\ 100 * Ratio.num > 115 * Ratio.den
    /\ 100 * Ratio.num < 116 * Ratio.den
    /\ velocity.status = "over"

C11_WitnessUnder ==
    /\ velocity # NotCalled
    /\ isFinite(Ratio)
    /\ 100 * Ratio.num < 85 * Ratio.den
    /\ Ratio.num > 0
    /\ velocity.status = "under"

\* the records of the history that count as this month's spending: not of
\* kind receive, dated from the first minute of the clock's month up to the
\* first minute of the next
SpentThisMonth ==
    LET first == NewDate(getFullYear(now), getMonth(now), 1, 0, 0)
        next == NewDate(getFullYear(now), getMonth(now) + 1, 1, 0, 0)
        Counts(t) == t.type # "receive" /\ first <= t.date /\ t.date < next
        kept == SelectSeq(transactions, Counts)
    IN  Sum([i \in 1..Len(kept) |-> kept[i].amount])

\* C12: velocityRatio = monthlyExpenses / ((monthlyBudget / daysInMonth) *
\* dayOfMonth); with expenses 3000, day 10, budget 9000 and a month of 30
\* days the expected spend to date is 3000, the ratio 1 and the status
\* on-track
C12_VelocityRatio ==
    velocity # NotCalled =>
        LET dayOfMonth == getDate(now)
            daysInMonth == velocity.daysInMonth
        IN  /\ monthlyBudget > 0 =>
                  Ratio = Frac(SpentThisMonth * daysInMonth,
                               monthlyBudget * dayOfMonth)
            /\ (/\ SpentThisMonth = 300000
                /\ dayOfMonth = 10
                /\ monthlyBudget = 900000
                /\ daysInMonth = 30) =>
                  /\ Frac(monthlyBudget * dayOfMonth, daysInMonth)
                         = Frac(300000, 1)
                  /\ Ratio = Frac(1, 1)
                  /\ velocity.status = "on-track"

\* the example: 3000.00 spent by 10 November against a budget of 9000.00
C12_Witness ==
    /\ velocity # NotCalled
    /\ SpentThisMonth = 300000
    /\ getDate(now) = 10
    /\ monthlyBudget = 900000
    /\ velocity.daysInMonth = 30
    /\ Len(transactions) >= 2

\* C13: every numeric field of a report is a finite number, also for an
\* empty history and for a budget of 0
C13_FiniteReport ==
    velocity # NotCalled =>
        /\ isFinite(velocity.dailyBurnRate)
        /\ isFinite(velocity.velocityRatio)
        /\ isFinite(velocity.projectedEndBalance)

\* what does hold: the burn rate and the projected balance are finite, and
\* the ratio is finite exactly when the budget is not 0
C13_FiniteButRatio ==
    velocity # NotCalled =>
        /\ isFinite(velocity.dailyBurnRate)
        /\ isFinite(velocity.projectedEndBalance)
        /\ isFinite(Ratio) <=> monthlyBudget # 0
        /\ (monthlyBudget = 0 /\ SpentThisMonth = 0) =>
              (Ratio = NaN /\ velocity.status = "on-track")
        /\ (monthlyBudget = 0 /\ SpentThisMonth > 0) =>
              (Ratio = Infinity /\ velocity.status = "over")

----------------------------------------------------------------------------
(* Properties of the store                                                 *)

\* C14: a submission of a text that the parser does not recognise adds
\* nothing to the stored records and raises the alert of a parse failure;
\* every stored record keeps a text that begins with the confirmation anchor
C14_UnrecognisedNotStored ==
    /\ [](\A i \in 1..Len(stored) : BeginsWithAnchor(stored[i].rawText))
    /\ [][(handleAddTransaction /\ ~BeginsWithAnchor(smsInput)) =>
             /\ stored' = stored
             /\ alerted' = CouldNotParse]_vars

\* a record is stored, and a later submission without the anchor is refused
C14_Witness ==
    /\ Len(stored) = 1
    /\ smsInput # ""
    /\ ~BeginsWithAnchor(smsInput)
    /\ parsed = null
    /\ alerted = CouldNotParse

----------------------------------------------------------------------------
(* Further properties of the parser                                        *)

Placeholder(kind) ==
    CASE kind = "paybill" -> "Unknown Merchant"
      [] kind = "send" -> "Unknown Recipient"
      [] kind = "receive" -> "Unknown Sender"
      [] kind = "withdraw" -> "Agent"
      [] kind = "buygoods" -> "Merchant"
      [] OTHER -> "Unknown"

\* the marker phrase that decides a kind
MarkerPhrase(kind) ==
    CASE kind = "paybill" -> "paid to"
      [] kind = "send" -> "sent to"
      [] kind = "receive" -> "received Ksh"
      [] kind = "withdraw" -> "Withdraw"
      [] kind = "buygoods" -> "Buy Goods"

\* the phrase before the name in the messages of a kind, in lower case
NamePhrase(kind) ==
    CASE kind = "paybill" -> "paid to"
      [] kind = "send" -> "sent to"
      [] kind = "receive" -> "from"
      [] kind = "withdraw" -> "from"
      [] kind = "buygoods" -> "to"

\* the word 'on' after a white-space character stands at position k
OnAt(text, k) ==
    /\ Ch(text, k) \in WhiteSpace
    /\ LitAt(text, k + 1, "on")

\* the end of the name: ' on' in any letter case after one white-space
\* character, for paybill after a full stop and one white-space character
NameEndsAt(kind, text, k) ==
    IF kind = "paybill" THEN Ch(text, k) = "." /\ OnAt(text, k + 1)
    ELSE OnAt(text, k)

\* the counterparty read off after the first occurrence of the marker
\* phrase, up to the following end of name
AfterMarker(kind, text) ==
    LET phrase == MarkerPhrase(kind)
        n == Len(phrase)
        I == {i \in 1..(Len(text) - n + 1) :
                 SubSeq(text, i, i + n - 1) = phrase}
    IN  IF I = {} THEN Placeholder(kind)
        ELSE LET j == Min(I) + n
                 K == {k \in j..Len(text) : NameEndsAt(kind, text, k)}
             IN  IF K = {} THEN Placeholder(kind)
                 ELSE trim(SubSeq(text, j, Min(K) - 1))

\* C15 as stated: the counterparty is the trimmed segment between the
\* marker phrase of the kind and the following ' on' ('. on' for paybill),
\* or the placeholder of the kind when there is no such segment
C15_SegmentAfterMarker ==
    (IsRecord(parsed) /\ parsed.type # "other") =>
        parsed.merchant = AfterMarker(parsed.type, smsInput)

\* the name starts at j when the name phrase (in any letter case) and one
\* white-space character stand before j
NameStartsAt(kind, text, j) ==
    LET n == Len(NamePhrase(kind))
    IN  /\ j > n + 1
        /\ LitAt(text, j - n - 1, NamePhrase(kind))
        /\ Ch(text, j - 1) \in WhiteSpace

\* the ends that can follow a name starting at j on the same line
NameEnds(kind, text, j) ==
    {k \in j..Len(text) :
        /\ NameEndsAt(kind, text, k)
        /\ \A q \in j..(k - 1) : Ch(text, q) \notin LineTerminators}

\* the counterparty read off after the name phrase: the leftmost start that
\* has an end, up to its first end
AfterNamePhrase(kind, text) ==
    LET J == {j \in 1..(Len(text) + 1) :
                 NameStartsAt(kind, text, j) /\ NameEnds(kind, text, j) # {}}
    IN  IF J = {} THEN Placeholder(kind)
        ELSE trim(SubSeq(text, Min(J), Min(NameEnds(kind, text, Min(J))) - 1))

\* C15, amended: the counterparty is the trimmed segment between the name
\* phrase of the kind ('paid to', 'sent to', 'from' for receive and
\* withdraw, 'to' for buygoods, in any letter case) and the first following
\* ' on' ('. on' for paybill), or the placeholder of the kind when there is
\* no such segment
C15_SegmentAfterNamePhrase ==
    (IsRecord(parsed) /\ parsed.type # "other") =>
        parsed.merchant = AfterNamePhrase(parsed.type, smsInput)

\* a receipt: the name follows 'from', not the marker 'received Ksh'
C15_Witness ==
    /\ IsRecord(parsed)
    /\ parsed.type = "receive"
    /\ parsed.merchant = "JANE W"
    /\ AfterMarker("receive", smsInput) = "20.00 from JANE W"

\* a kind whose name has no end: the placeholder
C15_WitnessPlaceholder ==
    /\ IsRecord(parsed)
    /\ parsed.type = "withdraw"
    /\ parsed.merchant = "Agent"

\* the hour of the day for a clock hour before or after noon
Hour24(h, period) ==
    IF toUpperCase(period) = "AM" /\ h = 12 THEN 0
    ELSE IF toUpperCase(period) = "PM" /\ h < 12 THEN h + 12
    ELSE h

\* C16: for a clause 'on D/M/Y at H:MM AM|PM' the date of the record has
\* day D, month M, year 2000 + Y for a two-digit year and Y otherwise,
\* minute MM and the hour of the 24-hour clock (12 AM is 0, PM below 12
\* adds 12, the rest unchanged), which lies in 0..23
C16_DateConversion ==
    \A c \in DateSpecs :
        (smsInput = DateText(c) /\ parsed # NotCalled) =>
            /\ IsRecord(parsed)
            /\ getDate(parsed.date) = c.d
            /\ getMonth(parsed.date) + 1 = c.m
            /\ getFullYear(parsed.date)
                   = (IF c.yDigits = 2 THEN 2000 + c.y ELSE c.y)
            /\ getMinutes(parsed.date) = c.mm
            /\ getHours(parsed.date) = Hour24(c.h, c.period)
            /\ getHours(parsed.date) \in 0..23

\* 12:05 AM on 1/12/2025 is minute 5 of hour 0 of that day
C16_Witness ==
    /\ IsRecord(parsed)
    /\ smsInput = DateText(DateSpec(1, 12, 2025, 4, 12, 5, "AM"))
    /\ parsed.date = NewDate(2025, 11, 1, 0, 5)

\* 12:55 PM stays hour 12, 11:55 PM is hour 23
C16_WitnessNoon ==
    /\ IsRecord(parsed)
    /\ smsInput = DateText(DateSpec(19, 2, 26, 2, 12, 55, "PM"))
    /\ getHours(parsed.date) = 12

C16_WitnessLate ==
    /\ IsRecord(parsed)
    /\ smsInput = DateText(DateSpec(19, 2, 26, 2, 11, 55, "PM"))
    /\ getHours(parsed.date) = 23
    /\ getFullYear(parsed.date) = 2026

\* C17: the counterparty of a record is never empty: it is a name with at
\* least one character that is not white space, or a placeholder
C17_NonEmptyCounterparty ==
    IsRecord(parsed) =>
        /\ parsed.merchant # ""
        /\ trim(parsed.merchant) # ""

\* what does hold: the counterparty is trimmed, and it is empty only when
\* the segment between the name phrase and ' on' is empty or blank
C17_EmptyOnlyFromBlankSegment ==
    IsRecord(parsed) =>
        /\ trim(parsed.merchant) = parsed.merchant
        /\ parsed.merchant = "" =>
              /\ parsed.type # "other"
              /\ AfterNamePhrase(parsed.type, smsInput) = ""

----------------------------------------------------------------------------
(* Further properties of the detector                                      *)

\* the history without its records of kind receive
WithoutReceipts ==
    LET Outflow(t) == t.type # "receive"
    IN  SelectSeq(transactions, Outflow)

\* C18: records of kind receive do not contribute: the forecasts are those
\* of the history with every receive record removed
C18_ReceiveIgnored ==
    detected => recurringBills = detectRecurringBills(WithoutReceipts, now)

\* a receipt dated after the last payment to the same counterparty, in a
\* history that yields a forecast for it
C18_Witness ==
    /\ detected
    /\ recurringBills # <<>>
    /\ \E i \in 1..Len(transactions) :
          /\ transactions[i].type = "receive"
          /\ \E b \in 1..Len(recurringBills) :
                /\ i \notin Members(recurringBills[b])
                /\ toLowerCase(transactions[i].merchant)
                       = toLowerCase(recurringBills[b].merchant)
                /\ transactions[i].date > recurringBills[b].lastDate

\* two receipts among the payments of a forecast counterparty
C18_WitnessTwo ==
    /\ detected
    /\ Len(recurringBills) = 1
    /\ Len(transactions) - Len(WithoutReceipts) = 2
    /\ \A i \in 1..Len(transactions) :
          toLowerCase(transactions[i].merchant) = "zuku"

\* the day-step of a cadence
StepOf(frequency) ==
    CASE frequency = "weekly" -> 7
      [] frequency = "biweekly" -> 14
      [] frequency = "monthly" -> 30

\* C19: lastDate is the latest date among the records of the group and
\* nextExpectedDate is lastDate plus the day-step of the cadence, in
\* whatever order the records were supplied; two records 30 or 31 days
\* apart are followed by a date 30 days after the later one
C19_NextExpected ==
    detected =>
        \A b \in 1..Len(recurringBills) :
            LET bill == recurringBills[b]
                M == Members(bill)
            IN  /\ \E i \in M : transactions[i].date = bill.lastDate
                /\ \A i \in M : transactions[i].date <= bill.lastDate
                /\ bill.nextExpectedDate
                       = bill.lastDate + StepOf(bill.frequency) * MinutesPerDay
                /\ (/\ Cardinality(M) = 2
                    /\ \E i, j \in M :
                          transactions[j].date - transactions[i].date
                              \in {30 * MinutesPerDay, 31 * MinutesPerDay})
                      => bill.nextExpectedDate
                             = bill.lastDate + 30 * MinutesPerDay

\* the later of two records 31 days apart was supplied first
C19_Witness ==
    /\ detected
    /\ Len(transactions) = 2
    /\ transactions[1].date - transactions[2].date = 31 * MinutesPerDay
    /\ Len(recurringBills) = 1
    /\ recurringBills[1].lastDate = transactions[1].date
    /\ recurringBills[1].nextExpectedDate
           = transactions[1].date + 30 * MinutesPerDay

\* the sum in cents of the amounts of the members of a group
MemberCents(M) ==
    Sum([i \in 1..Len(transactions) |->
            IF i \in M THEN transactions[i].amount ELSE 0])

\* C20: the amount of a forecast is the mean of the amounts of all records
\* of the group, rounded to the nearest whole shilling: it differs from
\* the mean by at most a half
C20_TypicalAmount ==
    detected =>
        \A b \in 1..Len(recurringBills) :
            LET M == Members(recurringBills[b])
                n == Cardinality(M)
                d == 100 * n * recurringBills[b].amount - MemberCents(M)
            IN  /\ 2 * d <= 100 * n
                /\ 2 * d >= -(100 * n)

\* a group of three with two records on one day: all three are averaged,
\* and the mean 2999.75 of another group is rounded up to 3000
C20_Witness ==
    /\ detected
    /\ \E b \in 1..Len(recurringBills) :
          LET M == Members(recurringBills[b])
          IN  /\ Cardinality(M) = 3
              /\ Len(GapsOf(recurringBills[b])) = 1
              /\ 3 * 100 * recurringBills[b].amount # MemberCents(M)

C20_WitnessUp ==
    /\ detected
    /\ \E b \in 1..Len(recurringBills) :
          LET M == Members(recurringBills[b])
          IN  100 * Cardinality(M) * recurringBills[b].amount > MemberCents(M)

\* the spellings of the name among the members of a group
Spellings(M) == {transactions[i].merchant : i \in M}

\* C21: records are grouped by counterparty name compared without regard to
\* letter case: there is at most one forecast for a name; it is made of
\* all records (not of kind receive) whose names differ from it in letter
\* case only and of no other record (its lastDate is the latest date and
\* its amount the half-up rounded mean of exactly these records); its
\* label is the lower-cased name with the first letter in upper case; and
\* records spelt differently do form a group: when they have a positive
\* day gap and every cadence step from the latest of them falls in the
\* window, the name has a forecast
C21_GroupByName ==
    detected =>
      /\ \A t \in Range(transactions) :
            LET key == toLowerCase(t.merchant)
                M == MembersOfKey(key)
            IN  (/\ HasPositiveGap(M)
                 /\ \E i \in M :
                       /\ \A j \in M :
                             transactions[j].date <= transactions[i].date
                       /\ daysUntil(transactions[i].date + 7 * MinutesPerDay)
                              >= -7
                       /\ daysUntil(transactions[i].date + 30 * MinutesPerDay)
                              <= 60)
                => BillsFor(key) # {}
      /\ \A b \in 1..Len(recurringBills) :
            LET bill == recurringBills[b]
                M == Members(bill)
                n == Cardinality(M)
                d == 100 * n * bill.amount - MemberCents(M)
            IN  /\ \A c \in BillsFor(toLowerCase(bill.merchant)) : c = b
                /\ M # {}
                /\ \A name \in Spellings(M) :
                      LET key == toLowerCase(name)
                      IN  /\ Len(bill.merchant) = Len(key)
                          /\ Ch(bill.merchant, 1) = UpperOf(Ch(key, 1))
                          /\ \A k \in 2..Len(key) :
                                Ch(bill.merchant, k) = Ch(key, k)
                /\ \E i \in M : transactions[i].date = bill.lastDate
                /\ \A i \in M : transactions[i].date <= bill.lastDate
                /\ 2 * d <= 100 * n
                /\ 2 * d > -(100 * n)

\* two forecasts, "Kplc" and "Kplc ltd", each from two records whose names
\* are spelt differently
C21_Witness ==
    /\ detected
    /\ Len(recurringBills) = 2
    /\ {recurringBills[1].merchant, recurringBills[2].merchant}
           = {"Kplc", "Kplc ltd"}
    /\ \A b \in 1..2 :
          /\ Cardinality(Members(recurringBills[b])) = 2
          /\ Cardinality(Spellings(Members(recurringBills[b]))) = 2

\* three spellings in one group
C21_WitnessThree ==
    /\ detected
    /\ Len(recurringBills) = 1
    /\ recurringBills[1].merchant = "Kplc"
    /\ Spellings(Members(recurringBills[1])) = {"kplc", "KPLC", "Kplc"}

\* the rearrangements of a history: the same records in every order
Rearrangements(seq) ==
    LET n == Len(seq)
        Orders == {p \in [1..n -> 1..n] : \A i, j \in 1..n :
                                              p[i] = p[j] => i = j}
    IN  {[i \in 1..n |-> seq[p[i]]] : p \in Orders}

\* C22: the forecast list does not depend on the order in which the
\* records are supplied: every rearrangement of the history gives the
\* same forecasts in the same order
C22_OrderIndependent ==
    detected =>
        \A txns \in Rearrangements(transactions) :
            detectRecurringBills(txns, now) = recurringBills

\* what holds of the detector instead: every rearrangement gives the same
\* set of forecasts, in ascending order of nextExpectedDate
C22_SameForecasts ==
    detected =>
        \A txns \in Rearrangements(transactions) :
            LET bills == detectRecurringBills(txns, now)
            IN  /\ Range(bills) = Range(recurringBills)
                /\ Len(bills) = Len(recurringBills)
                /\ \A b \in 1..(Len(bills) - 1) :
                      bills[b].nextExpectedDate <= bills[b + 1].nextExpectedDate

\* two forecasts for one date, returned in the order in which their
\* counterparties first appear in the history
C22_Tie ==
    /\ detected
    /\ Len(recurringBills) = 2
    /\ recurringBills[1].nextExpectedDate = recurringBills[2].nextExpectedDate
    /\ recurringBills[1].merchant = "Kplc ltd"
    /\ toLowerCase(transactions[1].merchant) = "kplc ltd"

\* the report of the calculator is the same for every rearrangement of the
\* history (sums are exact here)
C22_VelocityOrderIndependent ==
    velocity # NotCalled =>
        \A txns \in Rearrangements(transactions) :
            calculateSpendingVelocity(txns, monthlyBudget, currentBalance, now)
                = velocity

----------------------------------------------------------------------------
(* Further properties of the calculator                                    *)

\* the records of the history, by position, that are not of kind receive
\* and are dated in the calendar month and year of the clock
CountedRecords ==
    LET first == NewDate(getFullYear(now), getMonth(now), 1, 0, 0)
        next == NewDate(getFullYear(now), getMonth(now) + 1, 1, 0, 0)
    IN  {i \in 1..Len(transactions) :
            /\ transactions[i].type # "receive"
            /\ first <= transactions[i].date
            /\ transactions[i].date < next}

\* the sum of the amounts of a set of records of the history
AmountOfRecords(S) ==
    Sum([i \in 1..Len(transactions) |->
            IF i \in S THEN transactions[i].amount ELSE 0])

\* C23: monthlyExpenses is the sum of the amounts of exactly the records
\* that are not of kind receive and are dated in the current month of the
\* current year, and dailyBurnRate is monthlyExpenses / dayOfMonth, where
\* dayOfMonth is at least 1
C23_MonthlyExpenses ==
    velocity # NotCalled =>
        /\ getDate(now) >= 1
        /\ velocity.dailyBurnRate
               = Frac(AmountOfRecords(CountedRecords), getDate(now))
        /\ Times(velocity.dailyBurnRate, Frac(getDate(now), 1))
               = Frac(AmountOfRecords(CountedRecords), 1)

\* a payment of this month beside one of the same month a year earlier and
\* one of the month before: only the first is counted
C23_Witness ==
    /\ velocity # NotCalled
    /\ Len(transactions) = 3
    /\ Cardinality(CountedRecords) = 1
    /\ \E i, j \in 1..3 :
          /\ transactions[i].type # "receive"
          /\ transactions[j].type # "receive"
          /\ getMonth(transactions[i].date) = getMonth(now)
          /\ getFullYear(transactions[i].date) = getFullYear(now) - 1
          /\ getFullYear(transactions[j].date) = getFullYear(now)
          /\ getMonth(transactions[j].date) = getMonth(now) - 1
    /\ velocity.dailyBurnRate.num > 0

\* a receipt of this month beside two payments of this month; the first
\* day of a month, the divisor 1
C23_WitnessReceive ==
    /\ velocity # NotCalled
    /\ Len(transactions) = 3
    /\ Cardinality(CountedRecords) = 2
    /\ \E i \in 1..3 :
          /\ transactions[i].type = "receive"
          /\ getMonth(transactions[i].date) = getMonth(now)
          /\ getFullYear(transactions[i].date) = getFullYear(now)

C23_WitnessFirstDay ==
    /\ velocity # NotCalled
    /\ getDate(now) = 1
    /\ velocity.dailyBurnRate = Frac(255000, 1)

\* the remaining projected spend taken directly: dailyBurnRate times
\* daysRemaining, on doubles
RemainingSpend64 ==
    Mul64(velocity.dailyBurnRate, FromNat64(velocity.daysRemaining))

\* C24: projectedEndBalance = currentBalance - (dailyBurnRate * daysInMonth
\* - monthlyExpenses); it never exceeds currentBalance, it equals
\* currentBalance - dailyBurnRate * daysRemaining with daysRemaining =
\* daysInMonth - dayOfMonth, and on the last day of the month it equals
\* currentBalance
C24_Projection ==
    velocity # NotCalled =>
        /\ velocity.projectedEndBalance
               = Sub64(currentBalance,
                       Sub64(Mul64(velocity.dailyBurnRate,
                                   FromNat64(velocity.daysInMonth)),
                             MonthlyExpenses64(transactions, now)))
        /\ ~Less64(currentBalance, velocity.projectedEndBalance)
        /\ velocity.daysRemaining = velocity.daysInMonth - getDate(now)
        /\ velocity.projectedEndBalance = Sub64(currentBalance, RemainingSpend64)
        /\ velocity.daysRemaining = 0 =>
              velocity.projectedEndBalance = currentBalance

\* what holds of the doubles: the formula as it is computed, and the three
\* consequences up to a millionth of a shilling
Millionth64 == Div64(FromNat64(1), FromNat64(1000000))

Near64(x, y) ==
    LET d == Sub64(x, y)
    IN  Less64([d EXCEPT !.neg = FALSE], Millionth64)

C24_UpToRounding ==
    velocity # NotCalled =>
        /\ velocity.projectedEndBalance
               = Sub64(currentBalance,
                       Sub64(Mul64(velocity.dailyBurnRate,
                                   FromNat64(velocity.daysInMonth)),
                             MonthlyExpenses64(transactions, now)))
        /\ velocity.daysRemaining = velocity.daysInMonth - getDate(now)
        /\ Less64(velocity.projectedEndBalance,
                  Add64(currentBalance, Millionth64))
        /\ Near64(velocity.projectedEndBalance,
                  Sub64(currentBalance, RemainingSpend64))
        /\ velocity.daysRemaining = 0 =>
              Near64(velocity.projectedEndBalance, currentBalance)

\* the last day of the month, a balance of 0 and a projected balance above it
C24_ExceedsOnLastDay ==
    /\ velocity # NotCalled
    /\ velocity.daysRemaining = 0
    /\ currentBalance = Zero64
    /\ Less64(Zero64, velocity.projectedEndBalance)

\* the same statements on exact numbers
C24_ExactProjection ==
    (velocity # NotCalled /\ isFinite(velocity.dailyBurnRate)) =>
        LET spent == Frac(AmountOfRecords(CountedRecords), 1)
            balance == Frac(currentBalance, 1)
            rate == velocity.dailyBurnRate
            remaining == Times(rate, Frac(velocity.daysRemaining, 1))
        IN  /\ velocity.projectedEndBalance
                   = Minus(balance,
                           Minus(Times(rate, Frac(velocity.daysInMonth, 1)),
                                 spent))
            /\ ~GreaterThan(velocity.projectedEndBalance, currentBalance, 1)
            /\ velocity.daysRemaining = velocity.daysInMonth - getDate(now)
            /\ velocity.projectedEndBalance = Minus(balance, remaining)
            /\ velocity.daysRemaining = 0 =>
                  velocity.projectedEndBalance = balance

----------------------------------------------------------------------------
(* Further properties of the store                                         *)

\* C25: the store holds at most one record for each mpesaId, whatever
\* messages were submitted: a message submitted again adds no second record
C25_OneRecordPerId ==
    \A i, j \in 1..Len(stored) :
        stored[i].mpesaId = stored[j].mpesaId => i = j

\* what the store does instead: the same message submitted twice is stored
\* twice, each time without an alert
C25_StoredTwice ==
    /\ Len(stored) = 2
    /\ stored[1].rawText = stored[2].rawText
    /\ stored[1].mpesaId = stored[2].mpesaId
    /\ alerted = ""
    /\ smsInput = ""

=============================================================================
